---- MODULE Spec2Model ----
(***************************************************************************)
(* Real-time fan-out core of the chat backend: the WebSocketServer actor   *)
(* (the Hub: sessions / users / rooms maps), the WebSocketSession actors   *)
(* (auth handshake, frame handlers, presence hooks) and the Redis-backed   *)
(* PresenceService.                                                        *)
(*                                                                         *)
(* Actors talk through Addr::do_send: every message for the Hub is put in  *)
(* one FIFO mailbox (hubQ) and handled one at a time.  Futures started     *)
(* with ctx.spawn live inside the session actor and are dropped when the   *)
(* actor stops; futures started with actix_web::rt::spawn are detached.    *)
(***************************************************************************)
EXTENDS Integers, Sequences, FiniteSets, TLC

\* ---------------------------------------------------------------- bounds
Users == {"uA", "uB"}
Sessions == {"s1", "s2"}
\* session ids are Uuid::now_v7(): fresh, created in this order
SessionOrder == <<"s1", "s2">>
Convs == {"c1", "c2"}
Contents == {"hi"}

\* backlog of the Hub mailbox at which the model stops letting senders run
MaxQueue == 1
\* persistence calls in flight at a time, over all sessions
MaxPending == 1
\* how many clock steps a session is followed for
MaxClockSteps == 12
\* longest list of user ids given to a batch query
MaxIds == 3
\* room broadcasts followed on their way to the clients
MaxSent == 2

\* session.rs: period of the heartbeat timer and the silence it tolerates,
\* in seconds; the model reads the clock every ClockStep seconds
HEARTBEAT_INTERVAL == 15
CLIENT_TIMEOUT == 30
ClockStep == 5
\* presence.rs: seconds a presence key lives after SET .. EX / EXPIRE
PRESENCE_TTL == 60

None == "None"
NoSession == "None"
\* Utc::now() is read at two places on the way down; the two reads are
\* separated by the Redis round trip and give different instants
NoTime == "never"
TimeSetOffline == "now@set_offline"
TimeStopped == "now@stopped"

\* ------------------------------------------------------- HashMap helpers
EmptyMap == [x \in {} |-> {}]
MapPut(m, k, v) == [x \in (DOMAIN m) \cup {k} |-> IF x = k THEN v ELSE m[x]]
MapDel(m, k) == [x \in (DOMAIN m) \ {k} |-> m[x]]

\* ------------------------------------------------- ServerMessage (wire)
SM(t, u, c, ids, ls, txt) ==
    [type |-> t, user_id |-> u, conversation_id |-> c, user_ids |-> ids,
     last_seen |-> ls, content |-> txt]

NoMsg == SM("None", None, None, {}, NoTime, None)
Pong == SM("Pong", None, None, {}, NoTime, None)
AuthSuccess(u) == SM("AuthSuccess", u, None, {}, NoTime, None)
AuthFailed(reason) == SM("AuthFailed", None, None, {}, NoTime, reason)
ErrorMsg(message) == SM("Error", None, None, {}, NoTime, message)
NewMessage(c, sender, txt) == SM("NewMessage", sender, c, {}, NoTime, txt)
OnlineUsers(ids) == SM("OnlineUsers", None, None, ids, NoTime, None)
UserTyping(c, u) == SM("UserTyping", u, c, {}, NoTime, None)
UserStoppedTyping(c, u) == SM("UserStoppedTyping", u, c, {}, NoTime, None)
UserOnline(u) == SM("UserOnline", u, None, {}, NoTime, None)
UserOffline(u, ls) == SM("UserOffline", u, None, {}, ls, None)

\* ------------------------------------------------ Hub events (events.rs)
HM(t, s, u, c, m, skip, fids, online, ls) ==
    [type |-> t, id |-> s, user_id |-> u, conversation_id |-> c, message |-> m,
     skip_user_id |-> skip, friend_ids |-> fids, is_online |-> online,
     last_seen |-> ls]

Connect(s) == HM("Connect", s, None, None, NoMsg, None, {}, FALSE, NoTime)
Disconnect(s) == HM("Disconnect", s, None, None, NoMsg, None, {}, FALSE, NoTime)
Authenticate(s, u) == HM("Authenticate", s, u, None, NoMsg, None, {}, FALSE, NoTime)
JoinRoom(u, c) == HM("JoinRoom", NoSession, u, c, NoMsg, None, {}, FALSE, NoTime)
LeaveRoom(u, c) == HM("LeaveRoom", NoSession, u, c, NoMsg, None, {}, FALSE, NoTime)
BroadcastToRoom(c, m, skip) ==
    HM("BroadcastToRoom", NoSession, None, c, m, skip, {}, FALSE, NoTime)
SendToUser(u, m) == HM("SendToUser", NoSession, u, None, m, None, {}, FALSE, NoTime)
UserPresenceChanged(u, online, fids, ls) ==
    HM("UserPresenceChanged", NoSession, u, None, NoMsg, None, fids, online, ls)
SendInitialPresence(u, fids) ==
    HM("SendInitialPresence", NoSession, u, None, NoMsg, None, fids, FALSE, NoTime)

GetOnlineUsers == HM("GetOnlineUsers", NoSession, None, None, NoMsg, None, {}, FALSE, NoTime)

\* ------------------------------------------------------ JWT (utils/mod.rs)
\* A token as a client can present it: garbage (bad signature / not a JWT),
\* a correctly signed but expired token, or a correctly signed live token
\* whose claims carry a subject and an optional token type.
TokenTypes == {"AccessToken", "RefreshToken", None}
Tokens ==
    {[form |-> "garbage", type |-> None, sub |-> None]}
      \cup {[form |-> "expired", type |-> "AccessToken", sub |-> u] : u \in Users}
      \cup {[form |-> "signed", type |-> t, sub |-> u] : t \in TokenTypes, u \in Users}

\* Claims::decode: HS256 signature check with validate_exp = true
ClaimsDecode(token) ==
    IF token.form = "signed"
    THEN [ok |-> TRUE, sub |-> token.sub, type |-> token.type]
    ELSE [ok |-> FALSE, sub |-> None, type |-> None]

\* ---------------------------------------------------------------- state
VARIABLES
    sessions,   \* Hub: session_id -> Addr (the keys; the Addr is the session)
    users,      \* Hub: user_id -> set of session_ids
    rooms,      \* Hub: conversation_id -> set of user_ids
    hubQ,       \* mailbox of the Hub actor (FIFO)
    sess,       \* the session actors
    presence,   \* Redis presence:{user} keys (TRUE = key exists)
    expires,    \* Redis: the instant the TTL of presence:{user} runs out, on
                \* the clock of the connection that wrote it (0: no TTL set)
    lastSeen,   \* Redis last_seen:{user} values
    last        \* observation: the latest step of the Hub or of the presence
                \* store and what it sent; with obs, the latest step of any actor

vars == <<sessions, users, rooms, hubQ, sess, presence, expires, lastSeen, last>>

NewSession ==
    [state |-> "new", user_id |-> None, friend_ids |-> {},
     flow |-> "none", flow_fids |-> {}, pending |-> [c \in Convs |-> 0],
     offline_task |-> FALSE,
     offline_del |-> FALSE,  \* set_offline: DEL was executed, SET not yet
     clock |-> 0,            \* seconds since WebSocketSession::new
     last_heartbeat |-> 0,   \* clock reading at new() or at the last Ping
     started_at |-> 0,       \* clock reading at started()
     ticks |-> 0,            \* runs of the heartbeat timer so far
     transport |-> "open",   \* the message loop of websocket_handler runs
     crashed_at |-> 0,       \* clock reading when the server process died
     mailbox |-> <<>>,       \* ServerMessages the Hub sent, not yet handled
     tx |-> <<>>,            \* the outbound channel tx -> rx of the message loop
     received |-> <<>>,      \* what the loop has written to the client, in order
     rejected |-> FALSE,     \* observation: an Auth frame was answered AuthFailed
     joined |-> {},          \* observation: conversations this session asked to
                             \* join and has not asked to leave
     load_failed |-> FALSE]  \* observation: find_friend_ids returned Err

Init ==
    /\ sessions = {}
    /\ users = EmptyMap
    /\ rooms = EmptyMap
    /\ hubQ = <<>>
    /\ sess = [s \in Sessions |-> NewSession]
    /\ presence = [u \in Users |-> FALSE]
    /\ expires = [u \in Users |-> 0]
    /\ lastSeen = [u \in Users |-> NoTime]
    /\ last = [kind |-> "init"]

\* message m waits in the mailbox of the Hub
InHubQ(m) == \E i \in 1..Len(hubQ) : hubQ[i] = m

\* senders run while the backlog of the mailbox is below MaxQueue
Room == Len(hubQ) < MaxQueue

\* ------------------------------------------------ Hub (websocket/server.rs)
\* send_to_session: do_send to the session's Addr if the session is known
send_to_session(ss, sid, m) == IF sid \in ss THEN {<<sid, m>>} ELSE {}

get_online_users(us) == DOMAIN us

\* broadcast_online_users: OnlineUsers{keys of users} to every entry of sessions
broadcast_online_users(ss, us) == {<<sid, OnlineUsers(get_online_users(us))>> : sid \in ss}

\* rooms.values_mut().remove(user) followed by rooms.retain(non-empty)
RemoveFromRooms(rs, u) ==
    LET keep == {c \in DOMAIN rs : rs[c] \ {u} # {}}
    IN  [c \in keep |-> rs[c] \ {u}]

\* faulty variant: the user goes away with any of its sessions (one device per user)
DisconnectEffect_SingleDevice(ss, us, rs, sid, u) ==
    LET ss1 == ss \ {sid}
    IN  IF u = None
        THEN [sessions |-> ss1, users |-> us, rooms |-> rs, sent |-> {}]
        ELSE [sessions |-> ss1, users |-> MapDel(us, u),
              rooms |-> RemoveFromRooms(rs, u),
              sent |-> broadcast_online_users(ss1, MapDel(us, u))]

\* faulty variant: the session leaves `sessions` only
DisconnectEffect_KeepsUserEntry(ss, us, rs, sid, u) ==
    [sessions |-> ss \ {sid}, users |-> us, rooms |-> rs, sent |-> {}]

\* faulty variant: the online list is broadcast after every Disconnect
DisconnectEffect_AlwaysBroadcasts(ss, us, rs, sid, u) ==
    LET ss1 == ss \ {sid}
    IN  IF u = None
        THEN [sessions |-> ss1, users |-> us, rooms |-> rs,
              sent |-> broadcast_online_users(ss1, us)]
        ELSE IF us[u] \ {sid} = {}
             THEN LET us1 == MapDel(us, u)
                  IN  [sessions |-> ss1, users |-> us1,
                       rooms |-> RemoveFromRooms(rs, u),
                       sent |-> broadcast_online_users(ss1, us1)]
             ELSE [sessions |-> ss1, users |-> [us EXCEPT ![u] = @ \ {sid}],
                   rooms |-> rs, sent |-> broadcast_online_users(ss1, us)]

\* faulty variant: the rooms are left alone when the last session goes
DisconnectEffect_KeepsRooms(ss, us, rs, sid, u) ==
    LET ss1 == ss \ {sid}
    IN  IF u = None
        THEN [sessions |-> ss1, users |-> us, rooms |-> rs, sent |-> {}]
        ELSE IF us[u] \ {sid} = {}
             THEN LET us1 == MapDel(us, u)
                  IN  [sessions |-> ss1, users |-> us1, rooms |-> rs,
                       sent |-> broadcast_online_users(ss1, us1)]
             ELSE [sessions |-> ss1, users |-> [us EXCEPT ![u] = @ \ {sid}],
                   rooms |-> rs, sent |-> {}]

\* Handler<Disconnect>, for the user set `u` the scan stops at (None: no set
\* holds the session).  Result: the three maps and the deliveries.
DisconnectEffect(ss, us, rs, sid, u) ==
    LET ss1 == ss \ {sid}
    IN  IF u = None
        THEN [sessions |-> ss1, users |-> us, rooms |-> rs, sent |-> {}]
        ELSE IF us[u] \ {sid} = {}
             THEN LET us1 == MapDel(us, u)
                  IN  [sessions |-> ss1, users |-> us1,
                       rooms |-> RemoveFromRooms(rs, u),
                       sent |-> broadcast_online_users(ss1, us1)]
             ELSE [sessions |-> ss1, users |-> [us EXCEPT ![u] = @ \ {sid}],
                   rooms |-> rs, sent |-> {}]

\* the user sets the HashMap iteration may reach first
DisconnectScan(us, sid) ==
    LET holders == {u \in DOMAIN us : sid \in us[u]}
    IN  IF holders = {} THEN {None} ELSE holders

\* faulty variant: the new session replaces the user's sessions
AuthenticateEffect_SingleDevice(ss, us, sid, u) ==
    LET us1 == MapPut(us, u, {sid})
    IN  [users |-> us1,
         sent |-> IF u \notin DOMAIN us THEN broadcast_online_users(ss, us1) ELSE {}]

\* faulty variant: a message kept for the user is handed to the new session
AuthenticateEffect_Replays(ss, us, sid, u) ==
    LET old == IF u \in DOMAIN us THEN us[u] ELSE {}
        us1 == MapPut(us, u, old \cup {sid})
    IN  [users |-> us1,
         sent |-> (IF old = {} THEN broadcast_online_users(ss, us1) ELSE {})
                    \cup send_to_session(ss, sid, Pong)]

\* Handler<Authenticate>
AuthenticateEffect(ss, us, sid, u) ==
    LET old == IF u \in DOMAIN us THEN us[u] ELSE {}
        us1 == MapPut(us, u, old \cup {sid})
    IN  [users |-> us1,
         sent |-> IF old = {} THEN broadcast_online_users(ss, us1) ELSE {}]

\* Handler<JoinRoom>
JoinRoomEffect(rs, u, c) ==
    MapPut(rs, c, (IF c \in DOMAIN rs THEN rs[c] ELSE {}) \cup {u})

\* faulty variant: the emptied room stays in the map
LeaveRoomEffect_KeepsEmptyRoom(rs, u, c) ==
    IF c \in DOMAIN rs THEN [rs EXCEPT ![c] = @ \ {u}] ELSE rs

\* Handler<LeaveRoom>
LeaveRoomEffect(rs, u, c) ==
    IF c \in DOMAIN rs
    THEN IF rs[c] \ {u} = {} THEN MapDel(rs, c) ELSE [rs EXCEPT ![c] = @ \ {u}]
    ELSE rs

\* faulty variant: skip_user_id is ignored
BroadcastToRoomSent_NoSkip(ss, us, rs, c, m, skip) ==
    IF c \in DOMAIN rs
    THEN UNION {IF u \notin DOMAIN us
                THEN {}
                ELSE UNION {send_to_session(ss, sid, m) : sid \in us[u]}
                : u \in rs[c]}
    ELSE {}

\* faulty variant: a broadcast to an unknown room goes to every session
BroadcastToRoomSent_UnknownRoomToAll(ss, us, rs, c, m, skip) ==
    IF c \in DOMAIN rs
    THEN UNION {IF u = skip \/ u \notin DOMAIN us
                THEN {}
                ELSE UNION {send_to_session(ss, sid, m) : sid \in us[u]}
                : u \in rs[c]}
    ELSE {<<sid, m>> : sid \in ss}

\* Handler<BroadcastToRoom>
BroadcastToRoomSent(ss, us, rs, c, m, skip) ==
    IF c \in DOMAIN rs
    THEN UNION {IF u = skip \/ u \notin DOMAIN us
                THEN {}
                ELSE UNION {send_to_session(ss, sid, m) : sid \in us[u]}
                : u \in rs[c]}
    ELSE {}

\* faulty variant: one device of the user is served
SendToUserSent_OneDevice(ss, us, u, m) ==
    IF u \in DOMAIN us
    THEN send_to_session(ss, CHOOSE sid \in us[u] : TRUE, m)
    ELSE {}

\* Handler<SendToUser>
SendToUserSent(ss, us, u, m) ==
    IF u \in DOMAIN us
    THEN UNION {send_to_session(ss, sid, m) : sid \in us[u]}
    ELSE {}

\* Handler<UserPresenceChanged>: UserOnline / UserOffline to connected friends
UserPresenceChangedSent(ss, us, m) ==
    LET ev == IF m.is_online THEN UserOnline(m.user_id)
              ELSE UserOffline(m.user_id, m.last_seen)
    IN  UNION {SendToUserSent(ss, us, f, ev) : f \in m.friend_ids}

\* Handler<SendInitialPresence>: OnlineUsers{connected friends} to the user
SendInitialPresenceSent(ss, us, m) ==
    SendToUserSent(ss, us, m.user_id, OnlineUsers(m.friend_ids \cap DOMAIN us))

\* faulty variant: one entry per authenticated session
OnlineUsersReply_PerSession(us) ==
    LET pairs == {<<u, s>> : u \in DOMAIN us, s \in UNION {us[v] : v \in DOMAIN us}}
        held == {p \in pairs : p[2] \in us[p[1]]}
        n == Cardinality(held)
    IN  {[i \in 1..n |-> f[i][1]] :
           f \in {g \in [1..n -> held] : \A i, j \in 1..n : g[i] = g[j] => i = j}}

\* the Vec that get_online_users collects from users.keys(): every key once,
\* in any iteration order of the HashMap
OnlineUsersReply(us) ==
    LET n == Cardinality(DOMAIN us)
    IN  {f \in [1..n -> DOMAIN us] : \A i, j \in 1..n : f[i] = f[j] => i = j}

HubLast(m, sent) == [kind |-> "hub", msg |-> m, sent |-> sent]

HubTake(t) == hubQ # <<>> /\ Head(hubQ).type = t

HubConnect ==
    /\ HubTake("Connect")
    /\ sessions' = sessions \cup {Head(hubQ).id}
    /\ hubQ' = Tail(hubQ)
    /\ last' = HubLast(Head(hubQ), {})
    /\ UNCHANGED <<users, rooms, sess, presence, expires, lastSeen>>

HubDisconnect ==
    /\ HubTake("Disconnect")
    /\ \E u \in DisconnectScan(users, Head(hubQ).id) :
         LET r == DisconnectEffect(sessions, users, rooms, Head(hubQ).id, u)
         IN  /\ sessions' = r.sessions
             /\ users' = r.users
             /\ rooms' = r.rooms
             /\ last' = HubLast(Head(hubQ), r.sent)
    /\ hubQ' = Tail(hubQ)
    /\ UNCHANGED <<sess, presence, expires, lastSeen>>

HubAuthenticate ==
    /\ HubTake("Authenticate")
    /\ LET m == Head(hubQ)
           r == AuthenticateEffect(sessions, users, m.id, m.user_id)
       IN  /\ users' = r.users
           /\ last' = HubLast(m, r.sent)
    /\ hubQ' = Tail(hubQ)
    /\ UNCHANGED <<sessions, rooms, sess, presence, expires, lastSeen>>

HubJoinRoom ==
    /\ HubTake("JoinRoom")
    /\ rooms' = JoinRoomEffect(rooms, Head(hubQ).user_id, Head(hubQ).conversation_id)
    /\ hubQ' = Tail(hubQ)
    /\ last' = HubLast(Head(hubQ), {})
    /\ UNCHANGED <<sessions, users, sess, presence, expires, lastSeen>>

HubLeaveRoom ==
    /\ HubTake("LeaveRoom")
    /\ rooms' = LeaveRoomEffect(rooms, Head(hubQ).user_id, Head(hubQ).conversation_id)
    /\ hubQ' = Tail(hubQ)
    /\ last' = HubLast(Head(hubQ), {})
    /\ UNCHANGED <<sessions, users, sess, presence, expires, lastSeen>>

HubBroadcastToRoom ==
    /\ HubTake("BroadcastToRoom")
    /\ LET m == Head(hubQ)
       IN  last' = HubLast(m, BroadcastToRoomSent(sessions, users, rooms,
                                 m.conversation_id, m.message, m.skip_user_id))
    /\ hubQ' = Tail(hubQ)
    /\ UNCHANGED <<sessions, users, rooms, sess, presence, expires, lastSeen>>

HubSendToUser ==
    /\ HubTake("SendToUser")
    /\ LET m == Head(hubQ)
       IN  last' = HubLast(m, SendToUserSent(sessions, users, m.user_id, m.message))
    /\ hubQ' = Tail(hubQ)
    /\ UNCHANGED <<sessions, users, rooms, sess, presence, expires, lastSeen>>

HubUserPresenceChanged ==
    /\ HubTake("UserPresenceChanged")
    /\ last' = HubLast(Head(hubQ), UserPresenceChangedSent(sessions, users, Head(hubQ)))
    /\ hubQ' = Tail(hubQ)
    /\ UNCHANGED <<sessions, users, rooms, sess, presence, expires, lastSeen>>

HubSendInitialPresence ==
    /\ HubTake("SendInitialPresence")
    /\ last' = HubLast(Head(hubQ), SendInitialPresenceSent(sessions, users, Head(hubQ)))
    /\ hubQ' = Tail(hubQ)
    /\ UNCHANGED <<sessions, users, rooms, sess, presence, expires, lastSeen>>

\* Handler<GetOnlineUsers>: the reply goes back to the caller
HubGetOnlineUsers ==
    /\ HubTake("GetOnlineUsers")
    /\ \E reply \in OnlineUsersReply(users) :
         last' = [kind |-> "hub", msg |-> Head(hubQ), sent |-> {}, reply |-> reply]
    /\ hubQ' = Tail(hubQ)
    /\ UNCHANGED <<sessions, users, rooms, sess, presence, expires, lastSeen>>

\* ------------------------------------------- Session (websocket/session.rs)
Frame(t, token, c, txt) == [type |-> t, token |-> token, conversation_id |-> c, content |-> txt]
NoToken == [form |-> "none", type |-> None, sub |-> None]

\* what one handler run did: new user_id, frames put on tx, messages sent
\* to the Hub with do_send, future started with ctx.spawn
Effect(u, replies, hub, spawn) ==
    [user_id |-> u, replies |-> replies, hub |-> hub, spawn |-> spawn]

\* faulty variant: a second Auth frame with a good token re-authenticates the session
handle_auth_Reauthenticates(st, sid, token) ==
    LET claims == ClaimsDecode(token)
    IN  IF ~claims.ok
        THEN Effect(st.user_id, <<AuthFailed("invalid_or_expired")>>, <<>>, "none")
        ELSE IF claims.type # "AccessToken"
             THEN Effect(st.user_id, <<AuthFailed("access_token_only")>>, <<>>, "none")
             ELSE Effect(claims.sub, <<AuthSuccess(claims.sub)>>,
                         <<Authenticate(sid, claims.sub)>>, "presence_flow")

\* faulty variant: the token type is not looked at
handle_auth_AnyTokenType(st, sid, token) ==
    IF st.user_id # None
    THEN Effect(st.user_id, <<ErrorMsg("already_authenticated")>>, <<>>, "none")
    ELSE LET claims == ClaimsDecode(token)
         IN  IF ~claims.ok
             THEN Effect(None, <<AuthFailed("invalid_or_expired")>>, <<>>, "none")
             ELSE Effect(claims.sub, <<AuthSuccess(claims.sub)>>,
                         <<Authenticate(sid, claims.sub)>>, "presence_flow")

\* handle_auth
handle_auth(st, sid, token) ==
    IF st.user_id # None
    THEN Effect(st.user_id, <<ErrorMsg("already_authenticated")>>, <<>>, "none")
    ELSE LET claims == ClaimsDecode(token)
         IN  IF ~claims.ok
             THEN Effect(None, <<AuthFailed("invalid_or_expired")>>, <<>>, "none")
             ELSE IF claims.type # "AccessToken"
                  THEN Effect(None, <<AuthFailed("access_token_only")>>, <<>>, "none")
                  ELSE Effect(claims.sub, <<AuthSuccess(claims.sub)>>,
                              <<Authenticate(sid, claims.sub)>>, "presence_flow")

\* require_auth: the Error frame sent when user_id is None
require_auth(st) ==
    IF st.user_id = None THEN <<ErrorMsg("auth_required")>> ELSE <<>>

\* faulty variant: the message is persisted without asking for authentication
handle_send_message_NoGate(st, c) == Effect(st.user_id, <<>>, <<>>, "persist")

\* handle_send_message (message_service is Some outside the test setup)
handle_send_message(st, c) ==
    IF st.user_id = None
    THEN Effect(None, require_auth(st), <<>>, "none")
    ELSE Effect(st.user_id, <<>>, <<>>, "persist")

\* handle_join_conversation
handle_join_conversation(st, c) ==
    IF st.user_id = None
    THEN Effect(None, require_auth(st), <<>>, "none")
    ELSE Effect(st.user_id, <<>>, <<JoinRoom(st.user_id, c)>>, "none")

\* handle_leave_conversation
handle_leave_conversation(st, c) ==
    IF st.user_id = None
    THEN Effect(None, require_auth(st), <<>>, "none")
    ELSE Effect(st.user_id, <<>>, <<LeaveRoom(st.user_id, c)>>, "none")

\* faulty variant: the typing event is broadcast without skipping the sender
handle_typing_start_NoSkip(st, c) ==
    IF st.user_id = None
    THEN Effect(None, require_auth(st), <<>>, "none")
    ELSE Effect(st.user_id, <<>>,
                <<BroadcastToRoom(c, UserTyping(c, st.user_id), None)>>, "none")

\* handle_typing_start
handle_typing_start(st, c) ==
    IF st.user_id = None
    THEN Effect(None, require_auth(st), <<>>, "none")
    ELSE Effect(st.user_id, <<>>,
                <<BroadcastToRoom(c, UserTyping(c, st.user_id), st.user_id)>>, "none")

\* handle_typing_stop
handle_typing_stop(st, c) ==
    IF st.user_id = None
    THEN Effect(None, require_auth(st), <<>>, "none")
    ELSE Effect(st.user_id, <<>>,
                <<BroadcastToRoom(c, UserStoppedTyping(c, st.user_id), st.user_id)>>, "none")

\* faulty variant: Ping is answered only after authentication
handle_ping_Gated(st) ==
    IF st.user_id = None
    THEN Effect(None, require_auth(st), <<>>, "none")
    ELSE Effect(st.user_id, <<Pong>>, <<>>, "none")

\* ClientMessage::Ping arm of handle_client_message
handle_ping(st) == Effect(st.user_id, <<Pong>>, <<>>, "none")

\* faulty variant: the presence flow is run with ctx.wait, which holds the
\* mailbox back until the future is done
MailboxPaused_Wait(st) == st.flow # "none"

\* whether the futures of the session hold its mailbox back: handle_auth and
\* handle_send_message start them with ctx.spawn, which never does
MailboxPaused(st) == FALSE

RECURSIVE SumPending(_, _)
SumPending(ss, cs) ==
    IF ss = {} THEN 0
    ELSE LET s == CHOOSE x \in ss : TRUE
         IN  IF cs = {} THEN SumPending(ss \ {s}, Convs)
             ELSE LET c == CHOOSE x \in cs : TRUE
                  IN  sess[s].pending[c] + SumPending(ss, cs \ {c})

\* persistence calls in flight
Pending == SumPending(Sessions, Convs)

FrameLast(s, f, pre, r) ==
    [kind |-> "frame", session |-> s, frame |-> f, pre_user |-> pre,
     replies |-> r.replies, hub |-> r.hub, spawn |-> r.spawn]

\* Handler<ClientMessage>::handle for frame f with handler result r; obs:
\* whether the frame and the handler's output are kept in `last`
Handle(s, f, r, obs) ==
    /\ sess[s].state = "started"
    /\ sess[s].transport = "open"
    /\ ~MailboxPaused(sess[s])
    /\ r.hub # <<>> => Room
    /\ r.spawn = "persist" => Pending < MaxPending
    /\ sess' = [sess EXCEPT
                  ![s].user_id = r.user_id,
                  ![s].flow = IF r.spawn = "presence_flow" THEN "load" ELSE @,
                  ![s].last_heartbeat = IF f.type = "Ping" THEN sess[s].clock ELSE @,
                  ![s].rejected = @ \/ (obs /\ r.replies # <<>>
                                           /\ r.replies[1].type = "AuthFailed"),
                  ![s].joined = IF obs /\ r.hub # <<>> /\ r.hub[1].type = "JoinRoom"
                                THEN @ \cup {f.conversation_id}
                                ELSE IF obs /\ r.hub # <<>> /\ r.hub[1].type = "LeaveRoom"
                                     THEN @ \ {f.conversation_id}
                                     ELSE @,
                  ![s].pending = IF r.spawn = "persist"
                                 THEN [@ EXCEPT ![f.conversation_id] = @ + 1]
                                 ELSE @]
    /\ hubQ' = hubQ \o r.hub
    /\ last' = IF obs THEN FrameLast(s, f, sess[s].user_id, r) ELSE last
    /\ UNCHANGED <<sessions, users, rooms, presence, expires, lastSeen>>

\* WebSocketSession::started: register with the Hub
Start(s, obs) ==
    /\ sess[s].state = "new"
    /\ \A i \in 1..Len(SessionOrder) :
         SessionOrder[i] = s => \A j \in 1..(i - 1) : sess[SessionOrder[j]].state # "new"
    /\ Room
    /\ sess' = [sess EXCEPT ![s].state = "started", ![s].started_at = sess[s].clock]
    /\ hubQ' = Append(hubQ, Connect(s))
    /\ last' = IF obs THEN [kind |-> "start", session |-> s] ELSE last
    /\ UNCHANGED <<sessions, users, rooms, presence, expires, lastSeen>>

OnAuth(s, obs) ==
    \E token \in Tokens :
        Handle(s, Frame("Auth", token, None, None), handle_auth(sess[s], s, token), obs)

OnSendMessage(s, CC, obs) ==
    \E c \in CC, txt \in Contents :
        Handle(s, Frame("SendMessage", NoToken, c, txt), handle_send_message(sess[s], c), obs)

OnJoinConversation(s, CC, obs) ==
    \E c \in CC :
        Handle(s, Frame("JoinConversation", NoToken, c, None),
               handle_join_conversation(sess[s], c), obs)

OnLeaveConversation(s, CC, obs) ==
    \E c \in CC :
        Handle(s, Frame("LeaveConversation", NoToken, c, None),
               handle_leave_conversation(sess[s], c), obs)

OnTypingStart(s, CC, obs) ==
    \E c \in CC :
        Handle(s, Frame("TypingStart", NoToken, c, None), handle_typing_start(sess[s], c), obs)

OnTypingStop(s, CC, obs) ==
    \E c \in CC :
        Handle(s, Frame("TypingStop", NoToken, c, None), handle_typing_stop(sess[s], c), obs)

OnPing(s, obs) == Handle(s, Frame("Ping", NoToken, None, None), handle_ping(sess[s]), obs)

\* handle_client_message: dispatch on the variant
handle_client_message(st, sid, f) ==
    CASE f.type = "Auth" -> handle_auth(st, sid, f.token)
      [] f.type = "SendMessage" -> handle_send_message(st, f.conversation_id)
      [] f.type = "JoinConversation" -> handle_join_conversation(st, f.conversation_id)
      [] f.type = "LeaveConversation" -> handle_leave_conversation(st, f.conversation_id)
      [] f.type = "TypingStart" -> handle_typing_start(st, f.conversation_id)
      [] f.type = "TypingStop" -> handle_typing_stop(st, f.conversation_id)
      [] f.type = "Ping" -> handle_ping(st)

\* ------------------------------------- text frames (handler.rs, message.rs)
\* A text frame as it comes off the transport: whether it is JSON at all, the
\* value of its "type" member (None: no such member), the members it has
\* besides, and the token it carries if it has one.
Fields == {"token", "conversationId", "content"}
Raw(json, t, has, token) == [json |-> json, type |-> t, has |-> has, token |-> token]

\* #[serde(tag = "type", rename_all = "camelCase")]: wire tag -> variant
Variant ==
    [auth |-> "Auth", sendMessage |-> "SendMessage",
     joinConversation |-> "JoinConversation", leaveConversation |-> "LeaveConversation",
     typingStart |-> "TypingStart", typingStop |-> "TypingStop", ping |-> "Ping"]

\* the members each variant declares, after rename_all = "camelCase"
Members ==
    [Auth |-> {"token"}, SendMessage |-> {"conversationId", "content"},
     JoinConversation |-> {"conversationId"}, LeaveConversation |-> {"conversationId"},
     TypingStart |-> {"conversationId"}, TypingStop |-> {"conversationId"},
     Ping |-> {}]

\* the texts a client sends about conversation c: not JSON, a tag no variant
\* has (among them a variant's Rust name), no tag, and every variant with
\* any choice of members
RawTexts ==
    {Raw(FALSE, None, {}, NoToken)}
      \cup {Raw(TRUE, t, {}, NoToken) : t \in {"unknownType", "Ping", None}}
      \cup {Raw(TRUE, "auth", has, token) :
               has \in {h \in SUBSET Fields : "token" \in h}, token \in Tokens}
      \cup {Raw(TRUE, "auth", has, NoToken) :
               has \in {h \in SUBSET Fields : "token" \notin h}}
      \cup {Raw(TRUE, t, has, NoToken) :
               t \in DOMAIN Variant \ {"auth"},
               has \in {h \in SUBSET Fields : "token" \notin h}}

ParseErr == [ok |-> FALSE, frame |-> Frame(None, NoToken, None, None)]

\* faulty variant: a member the text lacks is filled with a default
from_str_DefaultsMissing(raw, c, txt) ==
    IF ~raw.json \/ raw.type \notin DOMAIN Variant
    THEN ParseErr
    ELSE LET v == Variant[raw.type]
         IN  [ok |-> TRUE,
              frame |-> [type |-> v,
                         token |-> raw.token,
                         conversation_id |-> IF "conversationId" \in Members[v] THEN c ELSE None,
                         content |-> IF "content" \in Members[v] THEN txt ELSE None,
                         raw |-> raw]]

\* serde_json::from_str::<ClientMessage>: the text must be JSON, its tag must
\* name a variant and every member of the variant must be there; members the
\* variant does not declare are ignored.  c and txt are the values of
\* conversationId and content; raw is kept with the frame as an observation.
from_str(raw, c, txt) ==
    IF ~raw.json \/ raw.type \notin DOMAIN Variant
    THEN ParseErr
    ELSE LET v == Variant[raw.type]
         IN  IF ~(Members[v] \subseteq raw.has)
             THEN ParseErr
             ELSE [ok |-> TRUE,
                   frame |-> [type |-> v,
                              token |-> raw.token,
                              conversation_id |-> IF "conversationId" \in Members[v] THEN c ELSE None,
                              content |-> IF "content" \in Members[v] THEN txt ELSE None,
                              raw |-> raw]]

\* the Message::Text arm of the message loop: parse, then do_send the
\* ClientMessage to the session actor, or log a warning and go on
OnText(s, CC) ==
    /\ sess[s].transport = "open"
    /\ \E raw \in RawTexts, c \in CC, txt \in Contents :
         LET p == from_str(raw, c, txt)
         IN  IF p.ok
             THEN Handle(s, p.frame, handle_client_message(sess[s], s, p.frame), TRUE)
             ELSE /\ last' = [kind |-> "text", session |-> s, raw |-> raw]
                  /\ UNCHANGED <<sessions, users, rooms, hubQ, sess, presence, expires, lastSeen>>

\* --------------------------------- PresenceService (websocket/presence.rs)
\* set_online: SET presence:{user} "1" EX 60
set_online(p, u) == [p EXCEPT ![u] = TRUE]

\* set_offline: pipeline DEL presence:{user}, SET last_seen:{user} now
set_offline(p, ls, u, now) ==
    [presence |-> [p EXCEPT ![u] = FALSE], lastSeen |-> [ls EXCEPT ![u] = now]]

\* refresh_presence: EXPIRE presence:{user} 60 (nothing to extend if absent)
refresh_presence(p, u) == IF p[u] THEN [p EXCEPT ![u] = TRUE] ELSE p

\* EXISTS presence:{user} at instant now: the key was set, not deleted, and
\* its TTL has not run out
KeyExists(p, e, u, now) == p[u] /\ now < e[u]

\* the TTL given by set_online (SET .. EX PRESENCE_TTL) at instant now
set_online_ttl(e, u, now) == [e EXCEPT ![u] = now + PRESENCE_TTL]

\* faulty variant: the heartbeat leaves the TTL alone
refresh_presence_ttl_NoExpire(p, e, u, now) == e

\* the TTL after refresh_presence (EXPIRE .. PRESENCE_TTL) at instant now
refresh_presence_ttl(p, e, u, now) ==
    IF KeyExists(p, e, u, now) THEN [e EXCEPT ![u] = now + PRESENCE_TTL] ELSE e

\* get_online_status_batch for one user: EXISTS presence:{user}, and GET
\* last_seen:{user} only if the key is absent
get_online_status_batch(p, ls, u) ==
    [user_id |-> u, is_online |-> p[u],
     last_seen |-> IF p[u] THEN NoTime ELSE ls[u]]

PresenceInfo(u, online, ls) == [user_id |-> u, is_online |-> online, last_seen |-> ls]

\* step 1 of the batch query: one EXISTS presence:{user} per input position
OnlineFlags(p, user_ids) == [i \in 1..Len(user_ids) |-> p[user_ids[i]]]

RECURSIVE IndicesFrom(_, _, _)
IndicesFrom(flags, i, want) ==
    IF i > Len(flags) THEN <<>>
    ELSE (IF want[i] THEN <<i>> ELSE <<>>) \o IndicesFrom(flags, i + 1, want)

\* faulty variant: last_seen is fetched for every position
OfflineIndices_All(flags) == [i \in 1..Len(flags) |-> i]

\* the positions whose flag is false, in input order
OfflineIndices(flags) == IndicesFrom(flags, 1, [i \in 1..Len(flags) |-> ~flags[i]])

\* step 2: one GET last_seen:{user} per offline position (nil: never set)
LastSeens(ls, user_ids, offline_indices) ==
    [k \in 1..Len(offline_indices) |-> ls[user_ids[offline_indices[k]]]]

\* step 3: the loop that combines flags and last_seens, from position i with
\* ls_idx values of last_seens used so far
RECURSIVE Combine(_, _, _, _, _)
Combine(user_ids, flags, last_seens, i, ls_idx) ==
    IF i > Len(user_ids) THEN <<>>
    ELSE LET take == ~flags[i] /\ ls_idx < Len(last_seens)
         IN  <<PresenceInfo(user_ids[i], flags[i],
                            IF take THEN last_seens[ls_idx + 1] ELSE NoTime)>>
               \o Combine(user_ids, flags, last_seens, i + 1,
                          IF take THEN ls_idx + 1 ELSE ls_idx)

\* get_online_status_batch for a list of user ids, the store not changing
\* between its two pipelines
online_status_batch(p, ls, user_ids) ==
    IF user_ids = <<>> THEN <<>>
    ELSE LET flags == OnlineFlags(p, user_ids)
             last_seens == LastSeens(ls, user_ids, OfflineIndices(flags))
         IN  Combine(user_ids, flags, last_seens, 1, 0)

\* ----------------------------------------- futures of handle_auth/stopped
\* faulty variant: the friends are notified, the initial list is not asked for
PresenceFlowSends_NoInitial(u, fids) ==
    IF fids # {}
    THEN <<UserPresenceChanged(u, TRUE, fids, NoTime)>>
    ELSE <<>>

\* what the presence flow sends to the Hub after set_online returned
PresenceFlowSends(u, fids) ==
    IF fids # {}
    THEN <<UserPresenceChanged(u, TRUE, fids, NoTime), SendInitialPresence(u, fids)>>
    ELSE <<>>

\* presence flow, first half: friend_repo.find_friend_ids returns (an error
\* counts as no friends) and the SET of set_online reaches Redis
FlowSetOnline(s, obs) ==
    /\ sess[s].state = "started"
    /\ sess[s].flow = "load"
    /\ \E ok \in BOOLEAN, ids \in SUBSET (Users \ {sess[s].user_id}) :
         /\ ~ok => ids = {}
         /\ sess' = [sess EXCEPT ![s].flow = "notify", ![s].flow_fids = ids,
                                 ![s].load_failed = obs /\ ~ok]
         /\ last' = [kind |-> "presence", op |-> "set_online",
                     user |-> sess[s].user_id, session |-> s,
                     load_ok |-> IF obs THEN ok ELSE TRUE,
                     friend_ids |-> IF obs THEN ids ELSE {}]
    /\ presence' = set_online(presence, sess[s].user_id)
    /\ expires' = set_online_ttl(expires, sess[s].user_id, sess[s].clock)
    /\ UNCHANGED <<sessions, users, rooms, hubQ, lastSeen>>

\* presence flow, second half: set_online returned; notify the friends, ask
\* for the initial list, and the .map closure caches friend_ids
FlowNotify(s, obs) ==
    /\ sess[s].state = "started"
    /\ sess[s].flow = "notify"
    /\ LET out == PresenceFlowSends(sess[s].user_id, sess[s].flow_fids)
       IN  /\ out # <<>> => Room
           /\ hubQ' = hubQ \o out
           /\ last' = IF obs
                      THEN [kind |-> "flow", session |-> s,
                            user |-> sess[s].user_id, hub |-> out]
                      ELSE last
    /\ sess' = [sess EXCEPT ![s].flow = "none", ![s].flow_fids = {},
                            ![s].friend_ids = sess[s].flow_fids]
    /\ UNCHANGED <<sessions, users, rooms, presence, expires, lastSeen>>

\* faulty variant: only the service broadcasts, skipping the sender
PersistSends_ServiceOnly(u, c, txt) == <<BroadcastToRoom(c, NewMessage(c, u, txt), u)>>

\* what a successful send_group_message and the session's own follow-up
\* send to the Hub
PersistSends(u, c, txt) ==
    <<BroadcastToRoom(c, NewMessage(c, u, txt), u),
      BroadcastToRoom(c, NewMessage(c, u, txt), None)>>

\* the future of handle_send_message: service.send_group_message returned Ok
PersistOk(s, CC, obs) ==
    /\ sess[s].state = "started"
    /\ \E c \in CC, txt \in Contents :
         /\ sess[s].pending[c] > 0
         /\ LET out == PersistSends(sess[s].user_id, c, txt)
            IN  /\ Room
                /\ hubQ' = hubQ \o out
                /\ last' = IF obs
                           THEN [kind |-> "persist", ok |-> TRUE, session |-> s,
                                 conversation_id |-> c, replies |-> <<>>, hub |-> out]
                           ELSE last
         /\ sess' = [sess EXCEPT ![s].pending[c] = @ - 1]
    /\ UNCHANGED <<sessions, users, rooms, presence, expires, lastSeen>>

\* faulty variant: the failed call is issued again
PersistErr_Retries(s, CC, obs) ==
    /\ sess[s].state = "started"
    /\ \E c \in CC :
         /\ sess[s].pending[c] > 0
         /\ last' = [kind |-> "persist", ok |-> FALSE, session |-> s,
                     conversation_id |-> c,
                     replies |-> <<ErrorMsg("send_failed")>>, hub |-> <<>>]
    /\ UNCHANGED <<sessions, users, rooms, hubQ, sess, presence, expires, lastSeen>>

\* the future of handle_send_message: service.send_group_message returned Err
PersistErr(s, CC, obs) ==
    /\ sess[s].state = "started"
    /\ \E c \in CC :
         /\ sess[s].pending[c] > 0
         /\ sess' = [sess EXCEPT ![s].pending[c] = @ - 1]
         /\ last' = IF obs
                    THEN [kind |-> "persist", ok |-> FALSE, session |-> s,
                          conversation_id |-> c,
                          replies |-> <<ErrorMsg("send_failed")>>, hub |-> <<>>]
                    ELSE last
    /\ UNCHANGED <<sessions, users, rooms, hubQ, presence, expires, lastSeen>>

\* heartbeat tick that finds the client alive: probe, refresh the TTL
Heartbeat(s, obs) ==
    /\ sess[s].state = "started"
    /\ presence' = IF sess[s].user_id # None
                   THEN refresh_presence(presence, sess[s].user_id)
                   ELSE presence
    /\ expires' = IF sess[s].user_id # None
                  THEN refresh_presence_ttl(presence, expires, sess[s].user_id, sess[s].clock)
                  ELSE expires
    /\ last' = IF obs
               THEN [kind |-> "heartbeat", session |-> s, replies |-> <<Pong>>,
                     refreshed |-> sess[s].user_id]
               ELSE last
    /\ UNCHANGED <<sessions, users, rooms, hubQ, sess, lastSeen>>

\* the fields of a session after ctx.stop() and stopped(): the futures
\* started with ctx.spawn go away with the actor, the detached task is started
Stopped(st) ==
    [st EXCEPT !.state = "stopped",
               !.flow = "none", !.flow_fids = {},
               !.pending = [c \in Convs |-> 0],
               !.offline_task = (st.user_id # None)]

\* heartbeat tick past CLIENT_TIMEOUT: ctx.stop(), then stopped()
Stop(s, obs) ==
    /\ sess[s].state = "started"
    /\ Room
    /\ hubQ' = Append(hubQ, Disconnect(s))
    /\ sess' = [sess EXCEPT ![s] = Stopped(@)]
    /\ last' = IF obs
               THEN [kind |-> "stop", session |-> s, user |-> sess[s].user_id,
                     hub |-> <<Disconnect(s)>>]
               ELSE last
    /\ UNCHANGED <<sessions, users, rooms, presence, expires, lastSeen>>

\* ------------------------------------------------- heartbeat with a clock
\* faulty variant: silence of exactly CLIENT_TIMEOUT already counts
HeartbeatExpired_AtTimeout(now, last_hb) == now - last_hb >= CLIENT_TIMEOUT

\* faulty variant: the timer never gives up on a silent client
HeartbeatExpired_Never(now, last_hb) == FALSE

\* the test of the heartbeat closure: silence longer than CLIENT_TIMEOUT
HeartbeatExpired(now, last_hb) == now - last_hb > CLIENT_TIMEOUT

\* when the interval timer set up in started() runs next
NextTickAt(st) == st.started_at + (st.ticks + 1) * HEARTBEAT_INTERVAL

\* how long session s is followed: MaxClockSteps readings of the clock while
\* its client is connected, and to the end of its timer afterwards
Horizon(st) ==
    MaxClockSteps * ClockStep
      + (IF st.transport = "closed" THEN CLIENT_TIMEOUT + HEARTBEAT_INTERVAL ELSE 0)
      + (IF st.state = "crashed" THEN PRESENCE_TTL ELSE 0)

\* time passes for session s: a little between new() and started(), and
\* never beyond the moment its timer is due
Advance(s) ==
    /\ sess[s].state \in {"new", "started", "crashed"}
    /\ sess[s].clock + ClockStep <= Horizon(sess[s])
    /\ sess[s].state = "new" => sess[s].clock = 0
    /\ sess[s].state = "started" => sess[s].clock + ClockStep <= NextTickAt(sess[s])
    /\ sess' = [sess EXCEPT ![s].clock = @ + ClockStep]
    /\ last' = [kind |-> "clock", session |-> s]
    /\ UNCHANGED <<sessions, users, rooms, hubQ, presence, expires, lastSeen>>

\* the closure of ctx.run_interval(HEARTBEAT_INTERVAL, ..) runs
Tick(s) ==
    /\ sess[s].state = "started"
    /\ sess[s].clock = NextTickAt(sess[s])
    /\ IF HeartbeatExpired(sess[s].clock, sess[s].last_heartbeat)
       THEN /\ Room
            /\ hubQ' = Append(hubQ, Disconnect(s))
            /\ sess' = [sess EXCEPT ![s] = [Stopped(@) EXCEPT !.ticks = @ + 1]]
            /\ presence' = presence
            /\ expires' = expires
            /\ last' = [kind |-> "tick", session |-> s, stopped |-> TRUE,
                        replies |-> <<>>, refreshed |-> None]
       ELSE /\ hubQ' = hubQ
            /\ sess' = [sess EXCEPT ![s].ticks = @ + 1]
            /\ presence' = IF sess[s].user_id # None
                           THEN refresh_presence(presence, sess[s].user_id)
                           ELSE presence
            /\ expires' = IF sess[s].user_id # None
                          THEN refresh_presence_ttl(presence, expires, sess[s].user_id,
                                                    sess[s].clock)
                          ELSE expires
            /\ last' = [kind |-> "tick", session |-> s, stopped |-> FALSE,
                        replies |-> <<Pong>>, refreshed |-> sess[s].user_id]
    /\ UNCHANGED <<sessions, users, rooms, lastSeen>>

\* the message loop of websocket_handler ends: close frame, end of stream,
\* protocol error or failed write.  The loop closes the transport and drops
\* its Addr and the receiving end of tx; nothing is sent to the session actor.
Close(s) ==
    /\ sess[s].transport = "open"
    /\ sess' = [sess EXCEPT ![s].transport = "closed"]
    /\ last' = [kind |-> "close", session |-> s]
    /\ UNCHANGED <<sessions, users, rooms, hubQ, presence, expires, lastSeen>>

\* the server process dies: the Hub, the session actor, its futures and the
\* detached tasks are gone without stopped() or set_offline; Redis lives on
Crash(s) ==
    /\ sess[s].state # "crashed"
    /\ sess' = [sess EXCEPT ![s] = [Stopped(sess[s]) EXCEPT
                                      !.state = "crashed",
                                      !.offline_task = FALSE,
                                      !.crashed_at = sess[s].clock]]
    /\ sessions' = {}
    /\ users' = EmptyMap
    /\ rooms' = EmptyMap
    /\ hubQ' = <<>>
    /\ last' = [kind |-> "crash", session |-> s]
    /\ UNCHANGED <<presence, expires, lastSeen>>

\* what the detached task of stopped() sends after set_offline
OfflineSends(u, fids) ==
    IF fids # {}
    THEN <<UserPresenceChanged(u, FALSE, fids, TimeStopped)>>
    ELSE <<>>

\* the detached task of stopped(): set_offline, then notify the cached friends
OfflineTask(s) ==
    /\ sess[s].offline_task
    /\ LET u == sess[s].user_id
           out == OfflineSends(u, sess[s].friend_ids)
           r == set_offline(presence, lastSeen, u, TimeSetOffline)
       IN  /\ out # <<>> => Room
           /\ presence' = r.presence
           /\ expires' = [expires EXCEPT ![u] = 0]
           /\ lastSeen' = r.lastSeen
           /\ hubQ' = hubQ \o out
           /\ last' = [kind |-> "presence", op |-> "set_offline", user |-> u,
                       session |-> s, hub |-> out]
    /\ sess' = [sess EXCEPT ![s].offline_task = FALSE]
    /\ UNCHANGED <<sessions, users, rooms>>

\* another holder of the Hub address sends SendToUser
ExtSendToUser(obs) ==
    /\ Room
    /\ \E u \in Users :
         /\ hubQ' = Append(hubQ, SendToUser(u, Pong))
         /\ last' = IF obs THEN [kind |-> "ext", hub |-> <<SendToUser(u, Pong)>>] ELSE last
    /\ UNCHANGED <<sessions, users, rooms, sess, presence, expires, lastSeen>>

\* ---------------------------------------------------------- specification
\* the system with the sessions SS talking about the conversations CC
NextOn(SS, CC, obs) ==
    \/ \E s \in SS : Start(s, obs)
    \/ \E s \in SS : OnAuth(s, obs)
    \/ \E s \in SS : OnSendMessage(s, CC, obs)
    \/ \E s \in SS : OnJoinConversation(s, CC, obs)
    \/ \E s \in SS : OnLeaveConversation(s, CC, obs)
    \/ \E s \in SS : OnTypingStart(s, CC, obs)
    \/ \E s \in SS : OnTypingStop(s, CC, obs)
    \/ \E s \in SS : OnPing(s, obs)
    \/ \E s \in SS : FlowSetOnline(s, obs)
    \/ \E s \in SS : FlowNotify(s, obs)
    \/ \E s \in SS : PersistOk(s, CC, obs)
    \/ \E s \in SS : PersistErr(s, CC, obs)
    \/ \E s \in SS : Heartbeat(s, obs)
    \/ \E s \in SS : Stop(s, obs)
    \/ \E s \in SS : OfflineTask(s)
    \/ ExtSendToUser(obs)
    \/ HubConnect
    \/ HubDisconnect
    \/ HubAuthenticate
    \/ HubJoinRoom
    \/ HubLeaveRoom
    \/ HubBroadcastToRoom
    \/ HubSendToUser
    \/ HubUserPresenceChanged
    \/ HubSendInitialPresence

\* two connections, one conversation
Next == NextOn(Sessions, {"c1"}, FALSE)
Spec == Init /\ [][Next]_vars

\* one connection, one conversation, every step observed
NextSession == NextOn({"s1"}, {"c1"}, TRUE)
SpecSession == Init /\ [][NextSession]_vars

\* the Hub actor handles the message at the head of its mailbox
HubNext ==
    \/ HubConnect
    \/ HubDisconnect
    \/ HubAuthenticate
    \/ HubJoinRoom
    \/ HubLeaveRoom
    \/ HubBroadcastToRoom
    \/ HubSendToUser
    \/ HubUserPresenceChanged
    \/ HubSendInitialPresence

\* two connections whose clients authenticate, join c1, send messages and
\* go away; the arbiter runs an actor whose mailbox is not empty
NextFair ==
    \/ \E s \in Sessions : Start(s, FALSE)
    \/ \E s \in Sessions : OnAuth(s, FALSE)
    \/ \E s \in Sessions : OnJoinConversation(s, {"c1"}, FALSE)
    \/ \E s \in Sessions : OnSendMessage(s, {"c1"}, FALSE)
    \/ \E s \in Sessions : FlowSetOnline(s, FALSE)
    \/ \E s \in Sessions : FlowNotify(s, FALSE)
    \/ \E s \in Sessions : PersistOk(s, {"c1"}, FALSE)
    \/ \E s \in Sessions : PersistErr(s, {"c1"}, FALSE)
    \/ \E s \in Sessions : Stop(s, FALSE)
    \/ \E s \in Sessions : OfflineTask(s)
    \/ HubConnect
    \/ HubDisconnect
    \/ HubAuthenticate
    \/ HubJoinRoom
    \/ HubBroadcastToRoom
    \/ HubUserPresenceChanged
    \/ HubSendInitialPresence

\* a future whose await returned is polled again: the mailbox bound of the
\* model never holds its do_send back forever
SpecFair ==
    /\ Init /\ [][NextFair]_vars
    /\ WF_vars(HubNext)
    /\ \A s \in Sessions : SF_vars(FlowNotify(s, FALSE))

\* one connection under a clock: the client authenticates and pings, the
\* session stops when its heartbeat timer finds the client silent
NextClock ==
    \/ Start("s1", TRUE)
    \/ OnAuth("s1", TRUE)
    \/ OnPing("s1", TRUE)
    \/ Advance("s1")
    \/ Tick("s1")
    \/ FlowSetOnline("s1", TRUE)
    \/ FlowNotify("s1", TRUE)
    \/ OfflineTask("s1")
    \/ HubConnect
    \/ HubAuthenticate
    \/ HubDisconnect
    \/ HubUserPresenceChanged
    \/ HubSendInitialPresence

SpecClock == Init /\ [][NextClock]_vars

\* the same connection whose transport may close at any time.  The arbiter
\* runs started() and the Hub's handlers, time passes and the interval timer
\* fires when it is due.
NextClose ==
    \/ Start("s1", FALSE)
    \/ OnAuth("s1", FALSE)
    \/ OnPing("s1", FALSE)
    \/ Close("s1")
    \/ Advance("s1")
    \/ Tick("s1")
    \/ FlowSetOnline("s1", FALSE)
    \/ FlowNotify("s1", FALSE)
    \/ OfflineTask("s1")
    \/ HubConnect
    \/ HubAuthenticate
    \/ HubDisconnect
    \/ HubUserPresenceChanged
    \/ HubSendInitialPresence

SpecClose ==
    /\ Init /\ [][NextClose]_vars
    /\ WF_vars(HubNext)
    /\ WF_vars(Start("s1", FALSE))
    /\ WF_vars(Advance("s1"))
    /\ WF_vars(Tick("s1"))

\* one connection whose client sends text frames of any shape
NextText ==
    \/ Start("s1", TRUE)
    \/ OnText("s1", {"c1"})
    \/ FlowSetOnline("s1", TRUE)
    \/ FlowNotify("s1", TRUE)
    \/ PersistOk("s1", {"c1"}, TRUE)
    \/ PersistErr("s1", {"c1"}, TRUE)
    \/ Stop("s1", TRUE)
    \/ OfflineTask("s1")
    \/ HubConnect
    \/ HubDisconnect
    \/ HubAuthenticate
    \/ HubJoinRoom
    \/ HubLeaveRoom
    \/ HubBroadcastToRoom
    \/ HubUserPresenceChanged
    \/ HubSendInitialPresence

SpecText == Init /\ [][NextText]_vars

\* one connection under a clock on a server that may die at any time
NextTtl ==
    \/ NextClock
    \/ Crash("s1")

SpecTtl == Init /\ [][NextTtl]_vars

\* ------------------------------------------------------ the batch query
\* the presence store in any state sessions can leave it in: a key present
\* or not, a last_seen never written or written at one of two instants
InitBatch ==
    /\ sessions = {}
    /\ users = EmptyMap
    /\ rooms = EmptyMap
    /\ hubQ = <<>>
    /\ sess = [s \in Sessions |-> NewSession]
    /\ presence \in [Users -> BOOLEAN]
    /\ expires = [u \in Users |-> IF presence[u] THEN PRESENCE_TTL ELSE 0]
    /\ lastSeen \in [Users -> {NoTime, TimeSetOffline, TimeStopped}]
    /\ last = [kind |-> "init"]

\* lists of user ids of length n
IdLists(n) == [1..n -> Users]

\* a caller runs get_online_status_batch
BatchQuery ==
    /\ \E n \in 0..MaxIds : \E user_ids \in IdLists(n) :
         last' = [kind |-> "batch", user_ids |-> user_ids,
                  result |-> online_status_batch(presence, lastSeen, user_ids)]
    /\ UNCHANGED <<sessions, users, rooms, hubQ, sess, presence, expires, lastSeen>>

NextBatch == BatchQuery
SpecBatch == InitBatch /\ [][NextBatch]_vars

\* ------------------------------------------------ the Hub driven directly
\* The Hub alone, sent messages through its address the way the tests of
\* server.rs do.  As with real sessions, Authenticate comes for a connected
\* id and for one user per id (started, handle_auth); Disconnect may come
\* for any id, at any time, any number of times.
NeverConnected == "s0"

Authenticated(s) ==
    \/ \E u \in DOMAIN users : s \in users[u]
    \/ \E i \in 1..Len(hubQ) : hubQ[i].type = "Authenticate" /\ hubQ[i].id = s

DrvSend(m) ==
    /\ Room
    /\ hubQ' = Append(hubQ, m)
    /\ UNCHANGED <<sessions, users, rooms, sess, presence, expires, lastSeen, last>>

DrvConnect == \E s \in Sessions : DrvSend(Connect(s))

DrvAuthenticate ==
    \E s \in Sessions, u \in Users :
        /\ s \in sessions
        /\ ~InHubQ(Disconnect(s))
        /\ ~Authenticated(s)
        /\ DrvSend(Authenticate(s, u))

DrvDisconnect == \E s \in Sessions \cup {NeverConnected} : DrvSend(Disconnect(s))

DrvJoinRoom == \E u \in Users : DrvSend(JoinRoom(u, "c1"))

DrvLeaveRoom == \E u \in Users : DrvSend(LeaveRoom(u, "c1"))

DrvBroadcastToRoom ==
    \E c \in Convs, skip \in Users \cup {None} : DrvSend(BroadcastToRoom(c, Pong, skip))

DrvSendToUser == \E u \in Users : DrvSend(SendToUser(u, Pong))

DrvGetOnlineUsers == DrvSend(GetOnlineUsers)

NextHub ==
    \/ DrvConnect
    \/ DrvAuthenticate
    \/ DrvDisconnect
    \/ DrvJoinRoom
    \/ DrvLeaveRoom
    \/ DrvBroadcastToRoom
    \/ DrvSendToUser
    \/ DrvGetOnlineUsers
    \/ HubConnect
    \/ HubDisconnect
    \/ HubAuthenticate
    \/ HubJoinRoom
    \/ HubLeaveRoom
    \/ HubBroadcastToRoom
    \/ HubSendToUser
    \/ HubGetOnlineUsers

SpecHub == Init /\ [][NextHub]_vars

\* ------------------------------------------- from the Hub to the client
\* observation: the messages of the room broadcasts the Hub has handled so
\* far, in the order it handled them
Log == IF last.kind = "hub" /\ "log" \in DOMAIN last THEN last.log ELSE <<>>

\* faulty variant: the newest message overtakes the ones that wait
MailboxPut_Front(q, m) == <<m>> \o q

\* Addr::do_send and UnboundedSender::send: the message joins the end
MailboxPut(q, m) == Append(q, m)

\* faulty variant: a sender waits while the queue holds a message
HasRoom_Bounded(q) == Len(q) < 1

\* do_send ignores the capacity of the mailbox and the channel of tx is
\* unbounded: a sender never waits for the receiver
HasRoom(q) == TRUE

\* what the handler of message m makes of the registry, and its deliveries
HubEffects(ss, us, rs, m) ==
    CASE m.type = "Connect" ->
           {[sessions |-> ss \cup {m.id}, users |-> us, rooms |-> rs, sent |-> {}]}
      [] m.type = "Disconnect" ->
           {DisconnectEffect(ss, us, rs, m.id, u) : u \in DisconnectScan(us, m.id)}
      [] m.type = "Authenticate" ->
           LET r == AuthenticateEffect(ss, us, m.id, m.user_id)
           IN  {[sessions |-> ss, users |-> r.users, rooms |-> rs, sent |-> r.sent]}
      [] m.type = "JoinRoom" ->
           {[sessions |-> ss, users |-> us,
             rooms |-> JoinRoomEffect(rs, m.user_id, m.conversation_id), sent |-> {}]}
      [] m.type = "BroadcastToRoom" ->
           {[sessions |-> ss, users |-> us, rooms |-> rs,
             sent |-> BroadcastToRoomSent(ss, us, rs, m.conversation_id, m.message,
                                          m.skip_user_id)]}

\* the mailboxes after the deliveries `sent`: do_send to a stopped actor fails
\* and the failure is ignored
Delivered(sent) ==
    [s \in Sessions |->
       IF sess[s].state = "started" /\ \E d \in sent : d[1] = s
       THEN [sess[s] EXCEPT !.mailbox = MailboxPut(@, (CHOOSE d \in sent : d[1] = s)[2])]
       ELSE sess[s]]

\* the Hub handles the message at the head of its mailbox and its deliveries
\* go into the mailboxes of the sessions
PipeHub ==
    /\ hubQ # <<>>
    /\ \E r \in HubEffects(sessions, users, rooms, Head(hubQ)) :
         /\ \A d \in r.sent : HasRoom(sess[d[1]].mailbox)
         /\ sessions' = r.sessions
         /\ users' = r.users
         /\ rooms' = r.rooms
         /\ sess' = Delivered(r.sent)
         /\ last' = [kind |-> "hub", msg |-> Head(hubQ), sent |-> r.sent,
                     log |-> IF Head(hubQ).type = "BroadcastToRoom"
                             THEN Append(Log, Head(hubQ).message) ELSE Log]
    /\ hubQ' = Tail(hubQ)
    /\ UNCHANGED <<presence, expires, lastSeen>>

\* broadcasts sent to the Hub so far
SentSoFar == Len(Log) + Cardinality({i \in 1..Len(hubQ) : hubQ[i].type = "BroadcastToRoom"})

\* a holder of the Hub address broadcasts the next message to room c1
PipeBroadcast ==
    /\ SentSoFar < MaxSent
    /\ DrvSend(BroadcastToRoom("c1", NewMessage("c1", "uA", SentSoFar + 1), None))

\* the client of s1 authenticates as uA, the client of s2 as uB
PipeAuthenticate ==
    \E s \in Sessions :
        /\ s \in sessions
        /\ sess[s].state = "started"
        /\ ~Authenticated(s)
        /\ DrvSend(Authenticate(s, IF s = "s1" THEN "uA" ELSE "uB"))

\* a user whose Authenticate the Hub has handled joins room c1, once
PipeJoinRoom ==
    \E u \in DOMAIN users :
        /\ "c1" \in DOMAIN rooms => u \notin rooms["c1"]
        /\ DrvSend(JoinRoom(u, "c1"))

\* Handler<ServerMessage> of the session: send_to_client puts it on tx; with
\* the receiving end dropped the send fails and the message is lost
SessionTake(s) ==
    /\ sess[s].state = "started"
    /\ sess[s].mailbox # <<>>
    /\ HasRoom(sess[s].tx)
    /\ sess' = [sess EXCEPT
                  ![s].mailbox = Tail(@),
                  ![s].tx = IF sess[s].transport = "open"
                            THEN MailboxPut(@, Head(sess[s].mailbox)) ELSE @]
    /\ UNCHANGED <<sessions, users, rooms, hubQ, presence, expires, lastSeen, last>>

\* outbound branch of the message loop: rx.recv(), ws_session.text(json)
LoopWrite(s) ==
    /\ sess[s].transport = "open"
    /\ sess[s].tx # <<>>
    /\ sess' = [sess EXCEPT ![s].tx = Tail(@),
                            ![s].received = Append(@, Head(sess[s].tx))]
    /\ UNCHANGED <<sessions, users, rooms, hubQ, presence, expires, lastSeen, last>>

\* the write fails: the loop breaks, what waits on the channel is lost
LoopWriteFails(s) ==
    /\ sess[s].transport = "open"
    /\ sess[s].tx # <<>>
    /\ sess' = [sess EXCEPT ![s].tx = <<>>, ![s].transport = "closed"]
    /\ UNCHANGED <<sessions, users, rooms, hubQ, presence, expires, lastSeen, last>>

\* two connections in room c1; the client of s1 may stop reading, lose its
\* transport or be stopped by its heartbeat, the client of s2 keeps reading
NextPipe ==
    \/ \E s \in Sessions : Start(s, FALSE)
    \/ PipeAuthenticate
    \/ PipeJoinRoom
    \/ PipeBroadcast
    \/ PipeHub
    \/ \E s \in Sessions : SessionTake(s)
    \/ \E s \in Sessions : LoopWrite(s)
    \/ LoopWriteFails("s1")
    \/ Stop("s1", FALSE)

SpecPipe ==
    /\ Init /\ [][NextPipe]_vars
    /\ WF_vars(PipeHub)
    /\ WF_vars(SessionTake("s2"))
    /\ WF_vars(LoopWrite("s2"))

\* the clients send one SendMessage between them
EchoSendMessage(s) ==
    /\ SentSoFar = 0
    /\ Pending = 0
    /\ OnSendMessage(s, {"c1"}, FALSE)

\* two connections authenticate and join c1, one SendMessage is persisted,
\* and what the Hub delivers is followed to the clients
NextEcho ==
    \/ \E s \in Sessions : Start(s, FALSE)
    \/ \E s \in Sessions : OnAuth(s, FALSE)
    \/ \E s \in Sessions : OnJoinConversation(s, {"c1"}, FALSE)
    \/ \E s \in Sessions : EchoSendMessage(s)
    \/ \E s \in Sessions : PersistOk(s, {"c1"}, FALSE)
    \/ PipeHub
    \/ \E s \in Sessions : SessionTake(s)
    \/ \E s \in Sessions : LoopWrite(s)

SpecEcho == Init /\ [][NextEcho]_vars

\* two connections, possibly devices of one user, join and leave c1 and
\* stop, while another holder of the Hub address broadcasts to the room
NextDevices ==
    \/ \E s \in Sessions : Start(s, TRUE)
    \/ \E s \in Sessions : OnAuth(s, TRUE)
    \/ \E s \in Sessions : OnJoinConversation(s, {"c1"}, TRUE)
    \/ \E s \in Sessions : OnLeaveConversation(s, {"c1"}, TRUE)
    \/ \E s \in Sessions : Stop(s, TRUE)
    \/ DrvBroadcastToRoom
    \/ HubConnect
    \/ HubDisconnect
    \/ HubAuthenticate
    \/ HubJoinRoom
    \/ HubLeaveRoom
    \/ HubBroadcastToRoom

SpecDevices == Init /\ [][NextDevices]_vars

\* ------------------------------------- REST send paths (message/service.rs)
\* the fallible awaits of send_group_message, in program order; each is
\* followed by `?`
GroupSteps ==
    <<"begin", "create", "increment_unread_count_for_others", "upsert_last_message",
      "update_timestamp", "get_unread_counts", "commit">>

\* the fallible awaits of send_direct_message, in program order
DirectSteps ==
    <<"begin", "find_conversation", "create", "increment_unread_count",
      "upsert_last_message", "update_timestamp", "get_unread_counts", "commit">>

Failures(steps) == {steps[i] : i \in 1..Len(steps)} \cup {None}

\* runs the steps from position i; fail names the await that returns Err
\* (None: none does).  The transaction is committed iff "commit" returned Ok.
RECURSIVE RunTx(_, _, _)
RunTx(steps, i, fail) ==
    IF i > Len(steps) THEN [ok |-> TRUE, committed |-> TRUE]
    ELSE IF steps[i] = fail THEN [ok |-> FALSE, committed |-> FALSE]
    ELSE RunTx(steps, i + 1, fail)

\* the conversation find_direct_between_users finds or
\* create_direct_conversation creates for a pair of users
DirectConversation == "c2"

\* faulty variant: the event is sent to the Hub before the commit is awaited
send_group_message_BroadcastFirst(sender_id, content, conversation_id, fail) ==
    LET r == RunTx(GroupSteps, 1, fail)
    IN  [ok |-> r.ok, committed |-> r.committed, conversation_id |-> conversation_id,
         hub |-> IF fail \in {None, "commit"}
                 THEN <<BroadcastToRoom(conversation_id,
                                        NewMessage(conversation_id, sender_id, content),
                                        sender_id)>>
                 ELSE <<>>]

\* MessageService::send_group_message: the result, whether the transaction
\* was committed, and what was sent to the Hub
send_group_message(sender_id, content, conversation_id, fail) ==
    LET r == RunTx(GroupSteps, 1, fail)
    IN  [ok |-> r.ok, committed |-> r.committed, conversation_id |-> conversation_id,
         hub |-> IF r.ok
                 THEN <<BroadcastToRoom(conversation_id,
                                        NewMessage(conversation_id, sender_id, content),
                                        sender_id)>>
                 ELSE <<>>]

\* MessageService::send_direct_message; conversation_id None: the
\* conversation of the pair is looked up or created
send_direct_message(sender_id, recipient_id, content, conversation_id, fail) ==
    LET r == RunTx(DirectSteps, 1, fail)
        conv == IF conversation_id = None THEN DirectConversation ELSE conversation_id
    IN  [ok |-> r.ok, committed |-> r.committed, conversation_id |-> conv,
         hub |-> IF r.ok
                 THEN <<BroadcastToRoom(conv, NewMessage(conv, sender_id, content),
                                        sender_id)>>
                 ELSE <<>>]

RestLast(path, sender, r, fail) ==
    [kind |-> "rest", path |-> path, sender |-> sender, fail |-> fail,
     ok |-> r.ok, committed |-> r.committed,
     conversation_id |-> r.conversation_id, hub |-> r.hub]

\* POST /group: handle::send_group_message calls the service
RestSendGroup ==
    \E sender \in Users, c \in Convs, txt \in Contents, fail \in Failures(GroupSteps) :
        LET r == send_group_message(sender, txt, c, fail)
        IN  /\ r.hub # <<>> => Room
            /\ hubQ' = hubQ \o r.hub
            /\ last' = RestLast("group", sender, r, fail)
            /\ UNCHANGED <<sessions, users, rooms, sess, presence, expires, lastSeen>>

\* POST /direct: handle::send_direct_message calls the service
RestSendDirect ==
    \E sender \in Users, recipient \in Users, copt \in Convs \cup {None},
       txt \in Contents, fail \in Failures(DirectSteps) :
        LET r == send_direct_message(sender, recipient, txt, copt, fail)
        IN  /\ sender # recipient
            /\ r.hub # <<>> => Room
            /\ hubQ' = hubQ \o r.hub
            /\ last' = RestLast("direct", sender, r, fail)
            /\ UNCHANGED <<sessions, users, rooms, sess, presence, expires, lastSeen>>

\* the Hub with connected and authenticated sessions whose users join c1,
\* and the two REST send paths as its only sources of NewMessage
NextRest ==
    \/ DrvConnect
    \/ DrvAuthenticate
    \/ DrvJoinRoom
    \/ RestSendGroup
    \/ RestSendDirect
    \/ HubConnect
    \/ HubAuthenticate
    \/ HubJoinRoom
    \/ HubBroadcastToRoom

SpecRest == Init /\ [][NextRest]_vars

\* ------------------------------ set_offline command by command (presence.rs)
\* redis::pipe() without .atomic() sends DEL and SET in one round trip with
\* no MULTI/EXEC around them: the server executes them in this order, and
\* may serve a command of another connection in between.
\* DEL presence:{user}
PipelineDel(s) ==
    /\ sess[s].offline_task
    /\ ~sess[s].offline_del
    /\ presence' = [presence EXCEPT ![sess[s].user_id] = FALSE]
    /\ expires' = [expires EXCEPT ![sess[s].user_id] = 0]
    /\ sess' = [sess EXCEPT ![s].offline_del = TRUE]
    /\ last' = [kind |-> "presence", op |-> "del", user |-> sess[s].user_id,
                session |-> s, hub |-> <<>>]
    /\ UNCHANGED <<sessions, users, rooms, hubQ, lastSeen>>

\* SET last_seen:{user} now; the pipeline returns and the task of stopped()
\* notifies the cached friends
PipelineSet(s) ==
    /\ sess[s].offline_task
    /\ sess[s].offline_del
    /\ LET u == sess[s].user_id
           out == OfflineSends(u, sess[s].friend_ids)
       IN  /\ out # <<>> => Room
           /\ lastSeen' = [lastSeen EXCEPT ![u] = TimeSetOffline]
           /\ hubQ' = hubQ \o out
           /\ last' = [kind |-> "presence", op |-> "set_offline", user |-> u,
                       session |-> s, hub |-> out]
    /\ sess' = [sess EXCEPT ![s].offline_task = FALSE, ![s].offline_del = FALSE]
    /\ UNCHANGED <<sessions, users, rooms, presence, expires>>

\* one connection that authenticates and stops, and a reader of the
\* presence store on another connection
NextOffline ==
    \/ Start("s1", FALSE)
    \/ OnAuth("s1", FALSE)
    \/ FlowSetOnline("s1", FALSE)
    \/ FlowNotify("s1", FALSE)
    \/ Stop("s1", FALSE)
    \/ PipelineDel("s1")
    \/ PipelineSet("s1")
    \/ BatchQuery
    \/ HubConnect
    \/ HubDisconnect
    \/ HubAuthenticate
    \/ HubUserPresenceChanged
    \/ HubSendInitialPresence

SpecOffline == Init /\ [][NextOffline]_vars

\* ------------------------------------------------------------ properties
\* the Hub is handling the message at the head of its mailbox in this step
HubStep(t) == hubQ # <<>> /\ Head(hubQ).type = t /\ hubQ' = Tail(hubQ)

LastHub(t) == last.kind = "hub" /\ last.msg.type = t

\* C1: after any sequence of Hub operations, no key of `users` maps to an
\* empty session set and no key of `rooms` maps to an empty user set
C1_NoEmptySets ==
    /\ \A u \in DOMAIN users : users[u] # {}
    /\ \A c \in DOMAIN rooms : rooms[c] # {}

\* a user's last session was disconnected while another user stays online
C1_Witness ==
    /\ LastHub("Disconnect")
    /\ last.sent # {}
    /\ DOMAIN users # {}
    /\ sess[last.msg.id].user_id \notin DOMAIN users \cup {None}

\* C2: Disconnect of one of several sessions of a user keeps the user in
\* `users` and leaves `rooms` alone; Disconnect of the last session removes
\* the user from `users` and from every room, drops the rooms that become
\* empty, and leaves the other users' entries and memberships as they were
C2_DisconnectEffect ==
    [][HubStep("Disconnect") =>
        LET sid == Head(hubQ).id
        IN  \A u \in DOMAIN users :
              sid \in users[u] =>
                IF users[u] # {sid}
                THEN /\ users' = [users EXCEPT ![u] = @ \ {sid}]
                     /\ rooms' = rooms
                ELSE /\ u \notin DOMAIN users'
                     /\ DOMAIN users' = DOMAIN users \ {u}
                     /\ \A v \in DOMAIN users' : users'[v] = users[v]
                     /\ DOMAIN rooms' = {c \in DOMAIN rooms : rooms[c] # {u}}
                     /\ \A c \in DOMAIN rooms' : rooms'[c] = rooms[c] \ {u}]_vars

\* one of two devices of a user in a room went away; the user is still there
C2_Witness ==
    /\ LastHub("Disconnect")
    /\ \E u \in DOMAIN users :
         /\ sess[last.msg.id].user_id = u
         /\ users[u] # {}
         /\ \E c \in DOMAIN rooms : u \in rooms[c]

\* C3: with sessions that follow the lifecycle, every session_id in a set of
\* `users` is a key of `sessions`
C3_UsersSubsetSessions == \A u \in DOMAIN users : users[u] \subseteq sessions

\* an authenticated session was disconnected while another one stays
C3_Witness ==
    /\ LastHub("Disconnect")
    /\ sess[last.msg.id].user_id # None
    /\ \E u \in DOMAIN users : users[u] # {}

\* the sessions of user u that are alive and whose Authenticate the Hub has
\* handled
Devices(u) ==
    {s \in Sessions : /\ sess[s].state = "started"
                      /\ sess[s].user_id = u
                      /\ ~InHubQ(Authenticate(s, u))}

\* C4: once two sessions are authenticated to one user, a SendToUser for the
\* user and a room broadcast that reaches the user go to both sessions
C4_MultiDevice ==
    /\ LastHub("SendToUser") =>
         \A s \in Devices(last.msg.user_id) : <<s, last.msg.message>> \in last.sent
    /\ LastHub("BroadcastToRoom") =>
         \A u \in Users :
           (/\ last.msg.conversation_id \in DOMAIN rooms
            /\ u \in rooms[last.msg.conversation_id]
            /\ u # last.msg.skip_user_id)
             => \A s \in Devices(u) : <<s, last.msg.message>> \in last.sent

\* a SendToUser reached the two devices of its user
C4_Witness ==
    /\ LastHub("SendToUser")
    /\ Cardinality(Devices(last.msg.user_id)) = 2
    /\ Cardinality(last.sent) = 2

\* C5: BroadcastToRoom with skip_user_id = Some(u) delivers to no session
\* owned by u; with None it delivers to exactly the sessions of the users in
\* the room
C5_BroadcastSkip ==
    LastHub("BroadcastToRoom") =>
        LET c == last.msg.conversation_id
            members == IF c \in DOMAIN rooms THEN rooms[c] ELSE {}
        IN  /\ \A d \in last.sent :
                 /\ d[2] = last.msg.message
                 /\ sess[d[1]].user_id \in members
                 /\ sess[d[1]].user_id # last.msg.skip_user_id
            /\ last.msg.skip_user_id = None =>
                 \A v \in members : \A s \in users[v] : <<s, last.msg.message>> \in last.sent

\* a broadcast skipped a room member who has a session and reached another
C5_Witness ==
    /\ LastHub("BroadcastToRoom")
    /\ last.msg.skip_user_id \in DOMAIN users
    /\ last.msg.conversation_id \in DOMAIN rooms
    /\ last.msg.skip_user_id \in rooms[last.msg.conversation_id]
    /\ last.sent # {}

IsPresenceEvent(m) == m.type \in {"UserOnline", "UserOffline", "OnlineUsers"}

\* the user a session is registered for in the Hub
HubUserOf(s) == {u \in DOMAIN users : s \in users[u]}

\* C6: a presence event goes only to sessions of connected users from the
\* friend list the event was computed for: UserOnline/UserOffline to the
\* friends named by UserPresenceChanged, OnlineUsers to the user that asked
\* with SendInitialPresence and holding only that user's connected friends;
\* nothing else the Hub handles emits a presence event
C6_PresenceFriendsOnly ==
    last.kind = "hub" =>
        \A d \in last.sent :
            IsPresenceEvent(d[2]) =>
                /\ HubUserOf(d[1]) # {}
                /\ last.msg.type \in {"UserPresenceChanged", "SendInitialPresence"}
                /\ last.msg.type = "UserPresenceChanged" =>
                     /\ d[2].type \in {"UserOnline", "UserOffline"}
                     /\ d[2].user_id = last.msg.user_id
                     /\ HubUserOf(d[1]) \subseteq last.msg.friend_ids
                /\ last.msg.type = "SendInitialPresence" =>
                     /\ d[2].type = "OnlineUsers"
                     /\ HubUserOf(d[1]) = {last.msg.user_id}
                     /\ d[2].user_ids \subseteq last.msg.friend_ids \cap DOMAIN users

\* C7: the detached task of a stopped session marks its user offline only if
\* no other live session of the user is registered in `users`
C7_OfflineOnlyForLastSession ==
    [][\A s \in Sessions :
         (sess[s].offline_task /\ ~sess'[s].offline_task) =>
            ~\E s2 \in Sessions \ {s} :
                /\ sess[s2].state = "started"
                /\ sess[s2].user_id = sess[s].user_id
                /\ sess[s].user_id \in DOMAIN users
                /\ s2 \in users[sess[s].user_id]]_vars

\* nothing is on its way to the Hub or to the presence store
Quiescent ==
    /\ hubQ = <<>>
    /\ \A s \in Sessions : sess[s].flow = "none" /\ ~sess[s].offline_task

\* C8: when nothing is in flight, every user with a session in `users` has
\* the online key in the presence store
C8_RegistryPresenceConsistent ==
    Quiescent => \A u \in DOMAIN users : presence[u]

LastFrame(t) == last.kind = "frame" /\ last.frame.type = t

\* the token passes Claims::decode and is an access token
ValidAccessToken(token) == token.form = "signed" /\ token.type = "AccessToken"

C10_AuthFailureKeepsSessionOpen ==
    (LastFrame("Auth") /\ last.pre_user = None) =>
        IF ValidAccessToken(last.frame.token)
        THEN /\ last.replies = <<AuthSuccess(last.frame.token.sub)>>
             /\ last.hub = <<Authenticate(last.session, last.frame.token.sub)>>
             /\ sess[last.session].user_id = last.frame.token.sub
        ELSE /\ Len(last.replies) = 1
             /\ last.replies[1].type = "AuthFailed"
             /\ last.hub = <<>>
             /\ last.spawn = "none"
             /\ sess[last.session].user_id = None
             /\ sess[last.session].state = "started"
             /\ sess[last.session].flow = "none"

\* a session whose Auth frame was rejected earlier has just authenticated
C10_Witness ==
    /\ LastFrame("Auth")
    /\ last.pre_user = None
    /\ sess[last.session].rejected
    /\ sess[last.session].user_id # None

\* the frames handle_client_message passes through require_auth
GatedFrames ==
    {"SendMessage", "JoinConversation", "LeaveConversation", "TypingStart", "TypingStop"}

\* C11: a SendMessage, JoinConversation, LeaveConversation, TypingStart or
\* TypingStop frame handled by an unauthenticated session puts one Error
\* frame on that connection, sends nothing to the Hub, starts no persistence
\* call, and changes neither the session nor the registry nor the presence store
C11_AuthGating ==
    [][(/\ last' # last
        /\ last'.kind = "frame"
        /\ last'.frame.type \in GatedFrames
        /\ last'.pre_user = None)
       => /\ last'.replies = <<ErrorMsg("auth_required")>>
          /\ last'.hub = <<>>
          /\ last'.spawn = "none"
          /\ sess' = sess
          /\ hubQ' = hubQ
          /\ UNCHANGED <<sessions, users, rooms, presence, expires, lastSeen>>]_vars

\* an unauthenticated session known to the Hub was sent SendMessage
C11_Witness ==
    /\ last.kind = "frame"
    /\ last.frame.type = "SendMessage"
    /\ last.pre_user = None
    /\ last.session \in sessions
    /\ last.replies = <<ErrorMsg("auth_required")>>

\* every session of every user of room c, each with message m
RoomAudience(c, m) ==
    IF c \in DOMAIN rooms
    THEN {<<sid, m>> : sid \in UNION {users[u] : u \in rooms[c] \cap DOMAIN users}}
    ELSE {}

\* a broadcast of NewMessage(c, u, txt) waits in the mailbox of the Hub
NewMessageQueued(c, u, txt) ==
    \E i \in 1..Len(hubQ) :
        /\ hubQ[i].type = "BroadcastToRoom"
        /\ hubQ[i].message = NewMessage(c, u, txt)

\* the Hub has just delivered NewMessage(c, u, txt) to the whole room
NewMessageDelivered(c, u, txt) ==
    /\ last.kind = "hub"
    /\ last.msg.type = "BroadcastToRoom"
    /\ last.msg.message = NewMessage(c, u, txt)
    /\ last.sent = RoomAudience(c, NewMessage(c, u, txt))

\* C12: once persistence of a SendMessage of user u succeeded and the
\* broadcasts are in the mailbox, the Hub eventually delivers NewMessage to
\* every session of every user in the room, the sender's sessions included
C12_NewMessageReachesRoom ==
    \A u \in Users, txt \in Contents :
        NewMessageQueued("c1", u, txt) ~> NewMessageDelivered("c1", u, txt)

\* the sender has two sessions in the room and both got the NewMessage
C12_Witness ==
    /\ \E u \in Users :
         /\ NewMessageDelivered("c1", u, "hi")
         /\ "c1" \in DOMAIN rooms /\ u \in rooms["c1"]
         /\ u \in DOMAIN users /\ users[u] = Sessions
    /\ last.sent # {}

\* persistence calls in flight of the session with fields st
PendingOf(st) == st.pending["c1"] + st.pending["c2"]

\* C13: an authenticated SendMessage frame starts exactly one persistence
\* call; when the call fails, the originating connection gets one Error
\* frame, nothing is sent to the Hub (no NewMessage is broadcast), registry
\* and presence store are unchanged, and the call is finished, not re-issued
C13_PersistFailure ==
    [][/\ (/\ last' # last
           /\ last'.kind = "frame"
           /\ last'.frame.type = "SendMessage"
           /\ last'.pre_user # None)
          => /\ last'.spawn = "persist"
             /\ last'.hub = <<>>
             /\ PendingOf(sess'[last'.session]) = PendingOf(sess[last'.session]) + 1
       /\ (/\ last' # last \/ sess' # sess
           /\ last'.kind = "persist"
           /\ ~last'.ok)
          => /\ last'.replies = <<ErrorMsg("send_failed")>>
             /\ last'.hub = <<>>
             /\ hubQ' = hubQ
             /\ PendingOf(sess'[last'.session]) = PendingOf(sess[last'.session]) - 1
             /\ UNCHANGED <<sessions, users, rooms, presence, expires, lastSeen>>]_vars

\* the persistence call of a user registered in the Hub, with the room in
\* place, has just failed
C13_Witness ==
    /\ last.kind = "persist"
    /\ ~last.ok
    /\ last.session \in sessions
    /\ sess[last.session].user_id \in DOMAIN users
    /\ last.conversation_id \in DOMAIN rooms
    /\ PendingOf(sess[last.session]) = 0

TypingEvents == {"UserTyping", "UserStoppedTyping"}

\* C14: when the Hub handles the broadcast of a typing event of user A in
\* conversation C, the event names C and A, every session of every other
\* member of room C receives it, and no session of A receives it
C14_TypingNotEchoed ==
    (/\ last.kind = "hub"
     /\ last.msg.type = "BroadcastToRoom"
     /\ last.msg.message.type \in TypingEvents)
    => LET ev == last.msg.message
           A == ev.user_id
           c == last.msg.conversation_id
       IN  /\ A \in Users
           /\ ev.conversation_id = c
           /\ \A d \in last.sent : d[2] = ev /\ A \notin HubUserOf(d[1])
           /\ A \in DOMAIN users => \A sid \in users[A] : <<sid, ev>> \notin last.sent
           /\ c \in DOMAIN rooms =>
                \A B \in (rooms[c] \ {A}) \cap DOMAIN users :
                    \A sid \in users[B] : <<sid, ev>> \in last.sent

\* A and B are both in the room with a session each, and B's session has
\* just received A's typing event
C14_Witness ==
    /\ last.kind = "hub"
    /\ last.msg.type = "BroadcastToRoom"
    /\ last.msg.message.type = "UserTyping"
    /\ "c1" \in DOMAIN rooms /\ rooms["c1"] = Users
    /\ DOMAIN users = Users
    /\ last.sent # {}

\* session s of user A is alive, its friend list holding B is loaded and
\* the online key is set: the rest of the post-auth flow is to come
FlowLoaded(s, A, B) ==
    /\ sess[s].state = "started"
    /\ sess[s].user_id = A
    /\ sess[s].flow = "notify"
    /\ B \in sess[s].flow_fids

\* the Hub has just told every session of B that A is online
OnlineAnnounced(A, B) ==
    /\ last.kind = "hub"
    /\ last.msg.type = "UserPresenceChanged"
    /\ last.msg.user_id = A
    /\ last.msg.is_online
    /\ B \in DOMAIN users => \A sid \in users[B] : <<sid, UserOnline(A)>> \in last.sent

\* the Hub has just sent every session of A the list of A's connected
\* friends, B among them if B is connected
InitialPresenceSent(A, B) ==
    /\ last.kind = "hub"
    /\ last.msg.type = "SendInitialPresence"
    /\ last.msg.user_id = A
    /\ A \in DOMAIN users =>
         \A sid \in users[A] :
             \E d \in last.sent :
                 /\ d[1] = sid
                 /\ d[2].type = "OnlineUsers"
                 /\ B \in DOMAIN users => B \in d[2].user_ids

\* C15: once the friend list of A's freshly authenticated session is loaded
\* and holds B, then, unless the session stops first, the Hub eventually sends
\* UserOnline{A} to every session of B and an OnlineUsers list holding B to
\* every session of A
C15_OnlineAnnouncedToFriends ==
    \A s \in Sessions, A \in Users : \A B \in Users \ {A} :
        /\ FlowLoaded(s, A, B) ~> (sess[s].state # "started" \/ OnlineAnnounced(A, B))
        /\ FlowLoaded(s, A, B) ~> (sess[s].state # "started" \/ InitialPresenceSent(A, B))

\* B was connected first; A's session is alive and has just received the
\* list holding B
C15_Witness ==
    \E s \in Sessions, A \in Users, B \in Users :
        /\ A # B
        /\ sess[s].state = "started" /\ sess[s].user_id = A
        /\ B \in sess[s].friend_ids
        /\ InitialPresenceSent(A, B)
        /\ A \in DOMAIN users /\ s \in users[A]
        /\ B \in DOMAIN users
        /\ <<s, OnlineUsers({B})>> \in last.sent

\* user A has no session, live or registered
NoSessionOf(A) ==
    /\ A \notin DOMAIN users
    /\ \A s \in Sessions : sess[s].state = "started" => sess[s].user_id # A

\* C16: when the Hub delivers UserOffline{A, last_seen} to a friend after A's
\* only session stopped, last_seen is not null and a presence batch query for
\* A made from then on reports is_online = false with that same last_seen
C16_LastSeenAgrees ==
    (/\ last.kind = "hub"
     /\ last.msg.type = "UserPresenceChanged"
     /\ ~last.msg.is_online
     /\ NoSessionOf(last.msg.user_id))
    => \A d \in last.sent :
          /\ d[2].type = "UserOffline"
          /\ d[2].last_seen # NoTime
          /\ get_online_status_batch(presence, lastSeen, last.msg.user_id)
               = [user_id |-> last.msg.user_id, is_online |-> FALSE,
                  last_seen |-> d[2].last_seen]

\* session id sid is in `sessions` or in a session set of `users`
KnownToHub(sid) == sid \in sessions \/ \E u \in DOMAIN users : sid \in users[u]

\* C17: a Disconnect for a session id the Hub does not know delivers nothing
\* and leaves sessions, users and rooms as they are; after any Disconnect the
\* id is unknown to the Hub, so a second Disconnect for it is such a no-op
C17_DisconnectIdempotent ==
    [][HubStep("Disconnect") =>
         /\ ~KnownToHub(Head(hubQ).id) =>
               /\ last'.sent = {}
               /\ UNCHANGED <<sessions, users, rooms>>
         /\ Head(hubQ).id \notin sessions'
         /\ \A u \in DOMAIN users' : Head(hubQ).id \notin users'[u]]_vars

\* with sessions, users and rooms in place, the Hub has just handled a
\* Disconnect for an id that was never connected
C17_Witness ==
    /\ last.kind = "hub"
    /\ last.msg = Disconnect(NeverConnected)
    /\ last.sent = {}
    /\ sessions = Sessions
    /\ DOMAIN users = Users
    /\ rooms # EmptyMap

\* C18: a BroadcastToRoom for a conversation with no entry in rooms delivers
\* nothing, changes neither sessions nor users nor rooms, and does not
\* create the room
C18_BroadcastUnknownRoom ==
    [][(HubStep("BroadcastToRoom") /\ Head(hubQ).conversation_id \notin DOMAIN rooms)
       => /\ last'.kind = "hub"
          /\ last'.msg = Head(hubQ)
          /\ last'.sent = {}
          /\ Head(hubQ).conversation_id \notin DOMAIN rooms'
          /\ UNCHANGED <<sessions, users, rooms>>]_vars

\* users are connected, no room exists, and a broadcast to c1 has just been
\* handled
C18_Witness ==
    /\ last.kind = "hub"
    /\ last.msg.type = "BroadcastToRoom"
    /\ last.msg.conversation_id = "c1"
    /\ rooms = EmptyMap
    /\ DOMAIN users = Users
    /\ last.sent = {}

\* C19: SendToUser(u, m) delivers m to the sessions in users[u], each of them
\* and no other, whatever rooms u is in; for a user without an entry in users
\* it delivers nothing; sessions, users and rooms stay as they are
C19_SendToUserExact ==
    [][HubStep("SendToUser") =>
         LET m == Head(hubQ)
         IN  /\ last'.kind = "hub"
             /\ last'.msg = m
             /\ last'.sent = IF m.user_id \in DOMAIN users
                             THEN {<<sid, m.message>> : sid \in users[m.user_id]}
                             ELSE {}
             /\ UNCHANGED <<sessions, users, rooms>>]_vars

\* a user with two sessions and no room has just been sent a message while
\* a room exists
C19_Witness ==
    /\ last.kind = "hub"
    /\ last.msg.type = "SendToUser"
    /\ last.msg.user_id \in DOMAIN users
    /\ users[last.msg.user_id] = Sessions
    /\ last.sent = {<<sid, last.msg.message>> : sid \in Sessions}
    /\ rooms # EmptyMap
    /\ \A c \in DOMAIN rooms : last.msg.user_id \notin rooms[c]

Gone(sid) ==
    /\ sess[sid].state = "stopped"
    /\ ~InHubQ(Disconnect(sid))
    /\ sid \notin sessions
    /\ \A u \in DOMAIN users : sid \notin users[u]

\* C21: after the transport of a session closed, or its heartbeat timed out,
\* the Hub eventually handles Disconnect for the session, and from then on the
\* session is in `sessions` and in a set of `users` never again
C21_TerminationLeadsToCleanup ==
    \A s \in {"s1"} :
      (sess[s].transport = "closed" \/ sess[s].state = "stopped") ~> [] Gone(s)

\* the transport of an authenticated, registered session closed while the
\* session was alive, and the Hub has handled the Disconnect sent later
C21_Witness ==
    /\ LastHub("Disconnect")
    /\ last.msg.id = "s1"
    /\ sess["s1"].transport = "closed"
    /\ sess["s1"].user_id # None
    /\ sess["s1"].ticks >= 2
    /\ Gone("s1")

\* C22: a Ping frame, from an authenticated session or not, sets
\* last_heartbeat to the current time and is answered with exactly one Pong on
\* the same connection; nothing goes to the Hub, no future is started and no
\* other field of the session or of the registry changes
C22_PingPong ==
    [][(last'.kind = "frame" /\ last'.frame.type = "Ping") =>
         LET s == last'.session
         IN  /\ last'.replies = <<Pong>>
             /\ last'.hub = <<>>
             /\ last'.spawn = "none"
             /\ sess' = [sess EXCEPT ![s].last_heartbeat = sess[s].clock]
             /\ UNCHANGED <<sessions, users, rooms, hubQ, presence, expires, lastSeen>>]_vars

\* a session that never authenticated pinged 20 s or more after it was created
C22_Witness ==
    /\ LastFrame("Ping")
    /\ last.pre_user = None
    /\ sess[last.session].user_id = None
    /\ sess[last.session].last_heartbeat >= 20
    /\ sess[last.session].last_heartbeat = sess[last.session].clock
    /\ last.replies = <<Pong>>

\* the text is not JSON, or its tag names no variant of ClientMessage, or a
\* member the variant requires is missing
Malformed(raw) ==
    \/ ~raw.json
    \/ raw.type \notin {"auth", "sendMessage", "joinConversation", "leaveConversation",
                        "typingStart", "typingStop", "ping"}
    \/ raw.type = "auth" /\ "token" \notin raw.has
    \/ raw.type = "sendMessage" /\ {"conversationId", "content"} \ raw.has # {}
    \/ raw.type \in {"joinConversation", "leaveConversation", "typingStart", "typingStop"}
         /\ "conversationId" \notin raw.has

C24_BatchQuery ==
    last.kind = "batch" =>
      /\ Len(last.result) = Len(last.user_ids)
      /\ last.user_ids = <<>> => last.result = <<>>
      /\ \A i \in 1..Len(last.user_ids) :
           LET u == last.user_ids[i]
           IN  /\ last.result[i].user_id = u
               /\ last.result[i].is_online = presence[u]
               /\ last.result[i].last_seen = IF presence[u] THEN NoTime ELSE lastSeen[u]

\* a query for an offline user, an online user whose stored last_seen
\* differs, and the offline user once more
C24_Witness ==
    /\ last.kind = "batch"
    /\ Len(last.user_ids) = 3
    /\ last.user_ids[1] = last.user_ids[3]
    /\ last.user_ids[2] # last.user_ids[1]
    /\ ~presence[last.user_ids[1]]
    /\ presence[last.user_ids[2]]
    /\ lastSeen[last.user_ids[1]] = TimeSetOffline
    /\ lastSeen[last.user_ids[2]] = TimeStopped
    /\ last.result[3].last_seen = TimeSetOffline

\* C25: GetOnlineUsers answers with the keys of `users` as they are when the
\* Hub handles it, each user once however many devices it has, and no user
\* for a session that is connected only; the registry is left as it was
C25_GetOnlineUsers ==
    [][HubStep("GetOnlineUsers") =>
         /\ UNCHANGED <<sessions, users, rooms>>
         /\ Len(last'.reply) = Cardinality(DOMAIN users)
         /\ {last'.reply[i] : i \in 1..Len(last'.reply)} = DOMAIN users
         /\ \A u \in Users :
              (\E i \in 1..Len(last'.reply) : last'.reply[i] = u)
                <=> (\E s \in sessions : u \in DOMAIN users /\ s \in users[u])]_vars

\* the answer names once a user with two devices, while the other user has
\* no session and nobody else is online
C25_Witness ==
    /\ LastHub("GetOnlineUsers")
    /\ \E u \in DOMAIN users :
         /\ users[u] = Sessions
         /\ sessions = Sessions
         /\ last.reply = <<u>>

\* C26: once the server died without cleanup, the store reports nobody
\* online later than PRESENCE_TTL after the crash, hence after the last
\* set_online or refresh; and the key that set_online created for the user of
\* a running session, refreshed by every heartbeat, has not run out
C26_PresenceTtl ==
    \A s \in {"s1"}, u \in Users :
      /\ (sess[s].state = "crashed" /\ sess[s].clock >= sess[s].crashed_at + PRESENCE_TTL)
           => ~KeyExists(presence, expires, u, sess[s].clock)
      /\ (sess[s].state = "started" /\ sess[s].user_id = u /\ presence[u])
           => KeyExists(presence, expires, u, sess[s].clock)

\* the key of a user whose session was refreshed by a heartbeat is still
\* stored a full TTL after the server died, and no longer counts
C26_Witness ==
    /\ sess["s1"].state = "crashed"
    /\ sess["s1"].ticks >= 1
    /\ sess["s1"].crashed_at >= HEARTBEAT_INTERVAL
    /\ sess["s1"].user_id # None
    /\ presence[sess["s1"].user_id]
    /\ sess["s1"].clock = sess["s1"].crashed_at + PRESENCE_TTL
    /\ ~KeyExists(presence, expires, sess["s1"].user_id, sess["s1"].clock)

\* C27: the Hub keeps no message for later.  What the handler of a
\* BroadcastToRoom or SendToUser delivers is that message, to sessions held in
\* a set of `users` when the handler runs, of the addressed user or of a member
\* of the addressed room; a user without such a session gets nothing, and no
\* other handler (Authenticate of a later session among them) delivers
\* anything but the online list or a presence event
C27_NoDurableQueue ==
    [][\A t \in {"Connect", "Disconnect", "Authenticate", "JoinRoom", "LeaveRoom",
                 "BroadcastToRoom", "SendToUser", "GetOnlineUsers"} :
         HubStep(t) =>
           LET m == Head(hubQ)
           IN  \A d \in last'.sent :
                 IF t \in {"BroadcastToRoom", "SendToUser"}
                 THEN /\ d[2] = m.message
                      /\ \E u \in DOMAIN users :
                           /\ d[1] \in users[u]
                           /\ IF t = "SendToUser"
                              THEN u = m.user_id
                              ELSE /\ m.conversation_id \in DOMAIN rooms
                                   /\ u \in rooms[m.conversation_id]
                 ELSE d[2].type \in {"OnlineUsers", "UserOnline", "UserOffline"}]_vars

\* a SendToUser was handled and dropped while the session of its user was
\* connected and its Authenticate was still waiting in the mailbox
C27_Witness ==
    /\ LastHub("SendToUser")
    /\ last.sent = {}
    /\ last.msg.user_id \notin DOMAIN users
    /\ \E s \in sessions : InHubQ(Authenticate(s, last.msg.user_id))

\* the NewMessage events of a sequence of ServerMessages, in order
RECURSIVE NewMessagesOf(_)
NewMessagesOf(q) ==
    IF q = <<>> THEN <<>>
    ELSE (IF Head(q).type = "NewMessage" THEN <<Head(q)>> ELSE <<>>) \o NewMessagesOf(Tail(q))

\* position of message m in the order the Hub handled the broadcasts
HandledAt(m) == CHOOSE i \in 1..Len(Log) : Log[i] = m

\* C28: if the Hub handled broadcast m1 before m2 and both went to the same
\* session, m1 comes before m2 all the way to the client: in what the client has
\* received, on the outbound channel and in the mailbox of the session
C28_PerSessionOrder ==
    \A s \in Sessions :
      LET way == NewMessagesOf(sess[s].received \o sess[s].tx \o sess[s].mailbox)
      IN  /\ \A i \in 1..Len(way) : \E k \in 1..Len(Log) : Log[k] = way[i]
          /\ \A i, j \in 1..Len(way) : i < j => HandledAt(way[i]) < HandledAt(way[j])

\* a client has received the first broadcast (after the online list) and
\* the second is still on its way
C28_Witness ==
    \E s \in Sessions :
      /\ Len(sess[s].received) >= 2
      /\ Len(NewMessagesOf(sess[s].received)) = 1
      /\ Len(NewMessagesOf(sess[s].tx \o sess[s].mailbox)) = 1
      /\ Len(Log) = 2

\* the Hub has just handled the k-th broadcast and sent it to session s
JustSent(k, s) ==
    /\ last.kind = "hub"
    /\ last.msg.type = "BroadcastToRoom"
    /\ last.msg.message.content = k
    /\ <<s, last.msg.message>> \in last.sent

\* C29: the Hub never waits for a recipient.  Whatever the backlog of a
\* session whose client reads slowly or not at all, whose transport failed or
\* which was stopped, the Hub can handle the message at the head of its
\* mailbox, and each broadcast it sends to the other session reaches the
\* client of that session
C29_HubNeverBlocks ==
    /\ [](hubQ # <<>> => ENABLED PipeHub)
    /\ \A k \in 1..MaxSent :
         JustSent(k, "s2") ~>
           (\E i \in 1..Len(sess["s2"].received) :
              /\ sess["s2"].received[i].type = "NewMessage"
              /\ sess["s2"].received[i].content = k)

\* the client of s1 has read nothing and three messages wait on its channel,
\* while the client of s2 has received both broadcasts
C29_Witness ==
    /\ sess["s1"].received = <<>>
    /\ Len(sess["s1"].tx) >= 3
    /\ Len(NewMessagesOf(sess["s1"].tx)) = 2
    /\ Len(NewMessagesOf(sess["s2"].received)) = 2

\* C30: a persistence call in flight is never cancelled: a call of an
\* accepted SendMessage leaves the set of calls in flight only in the step
\* that handles its outcome, also when the session is stopped meanwhile
C30_NeverCancelled ==
    [][\A s \in {"s1"} :
         PendingOf(sess'[s]) < PendingOf(sess[s]) =>
           /\ last'.kind = "persist"
           /\ last'.session = s
           /\ PendingOf(sess'[s]) = PendingOf(sess[s]) - 1]_vars

\* C31: after a successful Auth the session handles the next frames while the
\* friend-list load and the presence write of the post-auth flow are pending:
\* in every state with the flow pending each kind of frame can be handled
\* (given room in the Hub's mailbox, the bound of the model), and a JoinRoom
\* sent while the friend list is loading reaches the rooms of the Hub whether
\* or not the load ever returns (no fairness is assumed for the load).
FlowPending(s) ==
    /\ sess[s].state = "started"
    /\ sess[s].transport = "open"
    /\ sess[s].user_id # None
    /\ sess[s].flow \in {"load", "notify"}

C31_FramesNotBlockedByFlow ==
    /\ [](\A s \in Sessions :
            FlowPending(s) /\ Room =>
              /\ ENABLED OnJoinConversation(s, {"c1"}, FALSE)
              /\ ENABLED OnTypingStart(s, {"c1"}, FALSE)
              /\ ENABLED OnPing(s, FALSE)
              /\ Pending < MaxPending => ENABLED OnSendMessage(s, {"c1"}, FALSE))
    /\ \A s \in Sessions, u \in Users :
         (/\ sess[s].flow = "load"
          /\ sess[s].user_id = u
          /\ InHubQ(JoinRoom(u, "c1")))
           ~> ("c1" \in DOMAIN rooms /\ u \in rooms["c1"])

\* the friend list of s1 is still loading, and its JoinRoom has been handled
C31_Witness ==
    /\ sess["s1"].flow = "load"
    /\ sess["s1"].user_id # None
    /\ "c1" \in DOMAIN rooms
    /\ sess["s1"].user_id \in rooms["c1"]

\* the friend-list load of the post-auth flow of session s returned an error
LoadFailed(s) == sess[s].load_failed

\* C32: when the friend-list load of the post-auth flow fails, the
\* authentication stands (the session is or is about to be registered in
\* `users`, the user is marked online), the friend list is empty, the flow
\* sends nothing to the Hub, and no UserOnline or OnlineUsers event is sent
\* on behalf of the session; when the session stops the user is marked
\* offline and no UserOffline is sent.
C32_LoadFailureDegrades ==
    /\ (last.kind = "presence" /\ last.op = "set_online" /\ ~last.load_ok) =>
         LET s == last.session
             u == last.user
         IN  /\ sess[s].user_id = u
             /\ presence[u]
             /\ sess[s].flow_fids = {}
             /\ \/ InHubQ(Authenticate(s, u))
                \/ u \in DOMAIN users /\ s \in users[u]
    /\ (last.kind = "flow" /\ LoadFailed(last.session)) =>
         /\ last.hub = <<>>
         /\ sess[last.session].friend_ids = {}
    /\ (last.kind = "presence" /\ last.op = "set_offline" /\ LoadFailed(last.session)) =>
         /\ ~presence[last.user]
         /\ last.hub = <<>>
    /\ last.kind = "hub" =>
         \A s \in Sessions :
            LoadFailed(s) =>
               \A d \in last.sent :
                  /\ d[2].type \in {"UserOnline", "UserOffline"} =>
                       d[2].user_id # sess[s].user_id
                  /\ d[2].type = "OnlineUsers" =>
                       ~(last.msg.type = "Authenticate" /\ last.msg.id = s)

\* the participants table of the conversation store: who is a durable
\* participant of which conversation
Participants == [c \in Convs |-> IF c = "c1" THEN {"uA"} ELSE Users]

\* C33: JoinRoom(user, C) reaches the Hub only for a participant of C, so
\* every user in the room set of C is a participant of C, and a room
\* broadcast for C is delivered only to sessions of participants of C.
C33_JoinOnlyParticipants ==
    /\ \A i \in 1..Len(hubQ) :
         hubQ[i].type = "JoinRoom" =>
            hubQ[i].user_id \in Participants[hubQ[i].conversation_id]
    /\ \A c \in DOMAIN rooms : rooms[c] \subseteq Participants[c]
    /\ (last.kind = "hub" /\ last.msg.type = "BroadcastToRoom") =>
         \A d \in last.sent :
            \A u \in DOMAIN users :
               d[1] \in users[u] => u \in Participants[last.msg.conversation_id]

\* C34: on the REST paths the NewMessage broadcast is sent to the Hub only
\* if the transaction was committed, once, with skip_user_id = sender, and
\* not at all if any persistence step failed; when the Hub handles it, no
\* session of the sender receives it and every session of every other user
\* in the room does.
C34_RestBroadcast ==
    /\ last.kind = "rest" =>
         /\ last.fail # None => last.hub = <<>>
         /\ last.hub # <<>> =>
              /\ last.committed
              /\ last.hub =
                   <<BroadcastToRoom(last.conversation_id,
                                     NewMessage(last.conversation_id, last.sender, "hi"),
                                     last.sender)>>
         /\ last.fail = None => last.hub # <<>>
    /\ (LastHub("BroadcastToRoom") /\ last.msg.message.type = "NewMessage") =>
         LET sender == last.msg.message.user_id
             c == last.msg.conversation_id
             members == IF c \in DOMAIN rooms THEN rooms[c] ELSE {}
         IN  /\ \A d \in last.sent :
                  ~(sender \in DOMAIN users /\ d[1] \in users[sender])
             /\ \A v \in (members \cap DOMAIN users) \ {sender} :
                  \A s \in users[v] : <<s, last.msg.message>> \in last.sent

\* a REST-sent message was delivered to another member while the sender has
\* a session of its own in the room
C34_Witness ==
    /\ LastHub("BroadcastToRoom")
    /\ last.msg.message.type = "NewMessage"
    /\ last.msg.message.user_id \in DOMAIN users
    /\ last.msg.conversation_id \in DOMAIN rooms
    /\ last.msg.message.user_id \in rooms[last.msg.conversation_id]
    /\ last.sent # {}

\* C35: set_offline clears the online key and writes last_seen as one atomic
\* step: a reader that finds the user of a stopped session offline after
\* set_offline began also finds the last_seen written by that set_offline.
C35_SetOfflineAtomic ==
    last.kind = "batch" =>
        \A i \in 1..Len(last.result) :
           \A s \in Sessions :
              (/\ sess[s].state = "stopped"
               /\ sess[s].user_id = last.result[i].user_id
               /\ sess[s].offline_del \/ ~sess[s].offline_task
               /\ ~last.result[i].is_online)
                => last.result[i].last_seen = TimeSetOffline

\* the NewMessage frames written to the client of session s
NewMessagesReceived(s) ==
    {i \in 1..Len(sess[s].received) : sess[s].received[i].type = "NewMessage"}

\* C36: a successful WebSocket SendMessage reaches no session more than
\* once: with one message sent in the whole run, no client is written two
\* NewMessage frames.
C36_NewMessageOnce ==
    \A s \in Sessions : Cardinality(NewMessagesReceived(s)) <= 1

\* C37: a session that asked to join C while authenticated, has not asked to
\* leave C and has not stopped is delivered every room broadcast for C the
\* Hub handles after its JoinRoom, unless the broadcast skips its user,
\* whatever the other sessions of that user do.
C37_JoinedSessionReceives ==
    LastHub("BroadcastToRoom") =>
        \A s \in Sessions :
           (/\ sess[s].state = "started"
            /\ last.msg.conversation_id \in sess[s].joined
            /\ ~InHubQ(JoinRoom(sess[s].user_id, last.msg.conversation_id))
            /\ last.msg.skip_user_id # sess[s].user_id)
             => <<s, last.msg.message>> \in last.sent

\* C38: with JoinRoom sent only by authenticated sessions for their own
\* user, every user in a room set is a key of `users`: no room keeps a user
\* whose last session has disconnected, however the JoinRoom, Authenticate
\* and Disconnect messages of the user's sessions interleave in the Hub.
C38_RoomsHoldConnectedUsers ==
    \A c \in DOMAIN rooms : rooms[c] \subseteq DOMAIN users

\* the Hub has handled the Disconnect of the last session of a user who had
\* joined c1, while the other user is still in the room
C38_Witness ==
    /\ LastHub("Disconnect")
    /\ \E s \in Sessions :
         /\ last.msg.id = s
         /\ sess[s].state = "stopped"
         /\ "c1" \in sess[s].joined
         /\ sess[s].user_id \notin DOMAIN users
    /\ "c1" \in DOMAIN rooms

\* C39: a session id is in the session set of at most one user of `users`,
\* so the scan of Disconnect, which stops at the first set holding the
\* session, leaves the session in no set.
C39_SessionOfOneUser ==
    /\ \A u1, u2 \in DOMAIN users : u1 # u2 => users[u1] \cap users[u2] = {}
    /\ LastHub("Disconnect") => \A u \in DOMAIN users : last.msg.id \notin users[u]

\* the Hub has handled the Disconnect of an authenticated session while the
\* other user has a session set of its own for the scan to pass over
C39_Witness ==
    /\ LastHub("Disconnect")
    /\ sess[last.msg.id].user_id # None
    /\ \E u \in DOMAIN users : u # sess[last.msg.id].user_id

====
